---- MODULE Spec2Model ----
(***************************************************************************)
(* Verification model of cursor-tools (electron-app main process):         *)
(*   - QueryBuilder          (db/query-builder.ts)                         *)
(*   - DatabaseService       (db/database-service.ts and its variants)     *)
(*   - Workspace             (features/workspace/workspace.ts)             *)
(*   - Notepad/NotepadManager(features/notepad/*.ts)                       *)
(*                                                                         *)
(* JavaScript values are records [t |-> type tag, v |-> payload]; a JSON   *)
(* text is the value tagged "json" whose payload is the value the text     *)
(* denotes.  SQL text is a sequence of tokens (strings).                   *)
(***************************************************************************)
EXTENDS Integers, Sequences, FiniteSets, TLC

VARIABLES
    qb,      \* the fields of one QueryBuilder instance
    ret,     \* what the last QueryBuilder call returned or threw
    calls,   \* history: the builder calls made since construction / reset()
    kept,    \* the result object of the first build() a caller kept, as it reads now
    driver,         \* which DatabaseService build runs: "sqlite" (async) or "better-sqlite3"
    dbConnections,  \* DatabaseService.dbConnections: path -> connection (0: no entry)
    conns,          \* every connection opened so far: its path and whether it is open
    dbTasks,        \* the asynchronous DatabaseService calls in flight, one per caller
    ItemTable,      \* the rows of table ItemTable of one database file, in rowid order
    clock,          \* what unixepoch() returns
    wsTasks,        \* the get/set/delete calls in flight, one per caller
    lastSet,        \* history: per key, the last set that wrote its row with no other write
                    \* to the key during or after it (none otherwise)
    storeCalls,     \* history: how many get/set/delete calls were made
    npTasks,        \* the NotepadManager / Notepad calls in flight, one per caller
    usedIds,        \* the ids crypto.randomUUID() has returned
    npCalls,        \* history: how many NotepadManager calls were made
    disk,           \* the workspaceStorage directory: whether it can be read, and per
                    \* entry its workspace.json and what a read of its state.vscdb does
    wm,             \* the WorkspaceManager: its build, its workspaces, its call in flight
    loading,        \* loadWorkspaces: per directory entry, where its callback stands
    uiStore,        \* the state of useWorkspaceStore
    uiCall          \* history: the last call on useWorkspaceStore

qbVars == <<qb, ret, calls, kept>>
connVars == <<driver, dbConnections, conns, dbTasks>>
storeVars == <<ItemTable, clock, wsTasks, lastSet, storeCalls>>
notepadVars == <<npTasks, usedIds, npCalls>>
discVars == <<disk, wm, loading>>
uiVars == <<uiStore, uiCall>>
vars == <<qbVars, connVars, storeVars, notepadVars, discVars, uiVars>>
nonQbVars == <<connVars, storeVars, notepadVars, discVars, uiVars>>
nonConnVars == <<qbVars, storeVars, notepadVars, discVars, uiVars>>
nonStoreVars == <<qbVars, connVars, discVars, uiVars>>
nonDiscVars == <<qbVars, connVars, storeVars, notepadVars, uiVars>>
nonUiVars == <<qbVars, connVars, storeVars, notepadVars, discVars>>

(***************************************************************************)
(* Generic sequence helpers (Array.prototype.join / spread push)           *)
(***************************************************************************)
RECURSIVE Flatten(_)
Flatten(ss) == IF ss = <<>> THEN <<>> ELSE Head(ss) \o Flatten(Tail(ss))

RECURSIVE JoinSep(_, _)
JoinSep(ss, sep) ==
    IF ss = <<>> THEN <<>>
    ELSE IF Len(ss) = 1 THEN Head(ss)
    ELSE Head(ss) \o sep \o JoinSep(Tail(ss), sep)

Map(f(_), s) == [i \in 1..Len(s) |-> f(s[i])]

\* F applied to the value of x, which is computed once
Let(x, F(_)) == CHOOSE y \in {F(z) : z \in {x}} : TRUE

Range(s) == {s[i] : i \in 1..Len(s)}

(***************************************************************************)
(* JavaScript values                                                       *)
(***************************************************************************)
Str(s) == [t |-> "str", v |-> s]
Num(s) == [t |-> "num", v |-> s]
Obj(s) == [t |-> "obj", v |-> s]

\* JSON.stringify of a plain object: the JSON text denoting it
JSONText(value) == [t |-> "json", v |-> value]

\* typeof value === 'object' && value !== null && !(value instanceof Date)
IsPlainObject(value) == value.t = "obj"


\* set()/insert(): objects are stringified before they are kept for binding
ProcessedValue(value) == IF IsPlainObject(value) THEN JSONText(value) ELSE value

(***************************************************************************)
(* QueryBuilder                                                            *)
(***************************************************************************)
\* an optional number / object: <<>> is undefined / null, <<x>> is x
Undefined == <<>>
Some(x) == <<x>>

NewBuilder ==
    [ selectClause     |-> <<>>,
      fromTable        |-> "",
      whereConditions  |-> <<>>,
      joinClauses      |-> <<>>,
      groupByFields    |-> <<>>,
      havingConditions |-> <<>>,
      orderByClauses   |-> <<>>,
      limitValue       |-> Undefined,
      offsetValue      |-> Undefined,
      params           |-> <<>>,
      setClauses       |-> <<>>,
      isInsert         |-> FALSE,
      isDelete         |-> FALSE,
      insertValues     |-> Undefined ]

QSelect(b, fields) == [b EXCEPT !.selectClause = fields]

QFrom(b, table) == [b EXCEPT !.fromTable = table]

QWhere(b, condition, ps) ==
    [b EXCEPT !.whereConditions = Append(@, [sql |-> condition, params |-> ps])]

Placeholders(values) == JoinSep([i \in 1..Len(values) |-> <<"?">>], <<",">>)

\* a whereIn without its guard
WhereInNeverThrows(values) == FALSE

WhereInThrows(values) == Len(values) = 0

QWhereIn(b, field, values) ==
    QWhere(b, <<field, "IN", "(">> \o Placeholders(values) \o <<")">>, values)

QWhereLike(b, field, pattern) == QWhere(b, <<field, "LIKE", "?">>, <<pattern>>)

QWhereBetween(b, field, start, end) ==
    QWhere(b, <<field, "BETWEEN", "?", "AND", "?">>, <<start, end>>)

QJoin(b, type, table, condition, ps) ==
    [b EXCEPT !.joinClauses =
        Append(@, [type |-> type, table |-> table, condition |-> condition, params |-> ps])]

QGroupBy(b, fields) == [b EXCEPT !.groupByFields = fields]

QHaving(b, condition, ps) ==
    [b EXCEPT !.havingConditions = Append(@, [sql |-> condition, params |-> ps])]

QOrderBy(b, field, direction) ==
    [b EXCEPT !.orderByClauses = Append(@, [field |-> field, direction |-> direction])]

\* a limit / offset without its guard
LimitNeverThrows(value) == FALSE

LimitThrows(value) == value < 0

QLimit(b, value) == [b EXCEPT !.limitValue = Some(value)]

QOffset(b, value) == [b EXCEPT !.offsetValue = Some(value)]

QSet(b, field, value) ==
    [b EXCEPT !.setClauses = Append(@, [field |-> field, value |-> ProcessedValue(value)])]

\* values: the entries of the object, in key order
QInsert(b, values) ==
    [b EXCEPT !.isInsert = TRUE,
              !.insertValues =
                  Some([i \in 1..Len(values) |->
                          [field |-> values[i].field,
                           value |-> ProcessedValue(values[i].value)]])]

QDelete(b) == [b EXCEPT !.isDelete = TRUE]

\* a reset() that forgets to clear the limit and the delete marker
QResetKeepsLimitAndDelete(b) ==
    [NewBuilder EXCEPT !.limitValue = b.limitValue, !.isDelete = b.isDelete]

QReset(b) == NewBuilder

(***************************************************************************)
(* QueryBuilder.build()                                                    *)
(***************************************************************************)
\* a build() without its guard
BuildNeverThrows(b) == FALSE

BuildThrows(b) == b.fromTable = ""

\* `${value}`: the text a value would have if spliced into a template
Interpolate(value) == IF value.t = "json" THEN value.v.v ELSE value.v

\* the text of one SET assignment
SetStatementInterpolated(c) == <<c.field, "=", Interpolate(c.value)>>
SetStatement(c) == <<c.field, "=", "?">>

\* a build() that tests the set clauses first, then the insert marker, then
\* the delete marker
StatementKindUpdateFirst(b) ==
    IF Len(b.setClauses) > 0 THEN "UPDATE"
    ELSE IF b.isInsert /\ b.insertValues # Undefined THEN "INSERT"
    ELSE IF b.isDelete THEN "DELETE"
    ELSE "SELECT"

\* "DELETE" | "UPDATE" | "INSERT" | "SELECT": the branch build() takes
StatementKind(b) ==
    IF b.isDelete THEN "DELETE"
    ELSE IF Len(b.setClauses) > 0 THEN "UPDATE"
    ELSE IF b.isInsert /\ b.insertValues # Undefined THEN "INSERT"
    ELSE "SELECT"

\* the parts pushed by the statement branch
VerbParts(b) ==
    LET kind == StatementKind(b) IN
    IF kind = "DELETE" THEN << <<"DELETE", "FROM", b.fromTable>> >>
    ELSE IF kind = "UPDATE" THEN
        << <<"UPDATE", b.fromTable>>,
           <<"SET">> \o JoinSep(Map(SetStatement, b.setClauses), <<",">>) >>
    ELSE IF kind = "INSERT" THEN
        LET entries == b.insertValues[1] IN
        << <<"INSERT", "INTO", b.fromTable, "(">>
              \o JoinSep([i \in 1..Len(entries) |-> <<entries[i].field>>], <<",">>)
              \o <<")", "VALUES", "(">>
              \o Placeholders(entries)
              \o <<")">> >>
    ELSE
        << <<"SELECT">> \o (IF Len(b.selectClause) > 0
                             THEN JoinSep([i \in 1..Len(b.selectClause) |-> <<b.selectClause[i]>>],
                                          <<",">>)
                             ELSE <<"*">>),
           <<"FROM", b.fromTable>> >>

\* the params pushed by the statement branch
VerbParams(b) ==
    LET kind == StatementKind(b) IN
    IF kind = "UPDATE" THEN [i \in 1..Len(b.setClauses) |-> b.setClauses[i].value]
    ELSE IF kind = "INSERT" THEN
        [i \in 1..Len(b.insertValues[1]) |-> b.insertValues[1][i].value]
    ELSE <<>>

JoinParts(b) ==
    [i \in 1..Len(b.joinClauses) |->
        <<b.joinClauses[i].type, "JOIN", b.joinClauses[i].table, "ON">>
            \o b.joinClauses[i].condition]

ConditionParams(conds) == Flatten([i \in 1..Len(conds) |-> conds[i].params])

ConditionPart(keyword, conds) ==
    IF Len(conds) > 0
    THEN << <<keyword>> \o JoinSep([i \in 1..Len(conds) |-> conds[i].sql], <<"AND">>) >>
    ELSE <<>>

GroupByPart(b) ==
    IF Len(b.groupByFields) > 0
    THEN << <<"GROUP", "BY">>
              \o JoinSep([i \in 1..Len(b.groupByFields) |-> <<b.groupByFields[i]>>], <<",">>) >>
    ELSE <<>>

OrderByPart(b) ==
    IF Len(b.orderByClauses) > 0
    THEN << <<"ORDER", "BY">>
              \o JoinSep([i \in 1..Len(b.orderByClauses) |->
                            <<b.orderByClauses[i].field, b.orderByClauses[i].direction>>],
                         <<",">>) >>
    ELSE <<>>

LimitPart(b) ==
    IF b.limitValue # Undefined THEN << <<"LIMIT", ToString(b.limitValue[1])>> >> ELSE <<>>

OffsetPart(b) ==
    IF b.offsetValue # Undefined THEN << <<"OFFSET", ToString(b.offsetValue[1])>> >> ELSE <<>>

\* a build() that pushes the WHERE clause before the JOINs
BuildQueryWhereBeforeJoin(b) ==
    Flatten(VerbParts(b)
            \o ConditionPart("WHERE", b.whereConditions)
            \o JoinParts(b)
            \o GroupByPart(b)
            \o ConditionPart("HAVING", b.havingConditions)
            \o OrderByPart(b)
            \o LimitPart(b)
            \o OffsetPart(b))

\* parts.join(' ')
BuildQuery(b) ==
    Flatten(VerbParts(b)
            \o JoinParts(b)
            \o ConditionPart("WHERE", b.whereConditions)
            \o GroupByPart(b)
            \o ConditionPart("HAVING", b.havingConditions)
            \o OrderByPart(b)
            \o LimitPart(b)
            \o OffsetPart(b))

\* a build() without this.params = []: it pushes onto the params it has
BuildParamsAccumulated(b) ==
    b.params
        \o VerbParams(b)
        \o ConditionParams(b.joinClauses)
        \o ConditionParams(b.whereConditions)
        \o ConditionParams(b.havingConditions)

\* this.params after build(): pushed in the order the clauses are emitted
BuildParamsWhereFirst(b) ==
    VerbParams(b)
        \o ConditionParams(b.whereConditions)
        \o ConditionParams(b.joinClauses)
        \o ConditionParams(b.havingConditions)
BuildParams(b) ==
    VerbParams(b)
        \o ConditionParams(b.joinClauses)
        \o ConditionParams(b.whereConditions)
        \o ConditionParams(b.havingConditions)

(***************************************************************************)
(* QueryBuilder: inputs, return values, actions                            *)
(***************************************************************************)
MaxCalls == 3

QFields == {"a", "b"}
ValStr == Str("x';--")
ValObj == Obj("{k:1}")
QValues == {ValStr, ValObj}

RetNone == [kind |-> "none", query |-> <<>>, params |-> <<>>, error |-> ""]
RetThis == [kind |-> "this", query |-> <<>>, params |-> <<>>, error |-> ""]
RetThrow(operation) ==
    [kind |-> "throw", query |-> <<>>, params |-> <<>>, error |-> operation]
RetBuilt(query, ps) == [kind |-> "built", query |-> query, params |-> ps, error |-> ""]

Logged(m, fields, vals) == Append(calls, [m |-> m, fields |-> fields, vals |-> vals])

CanCall == Len(calls) < MaxCalls

Chain(b, m, fields, vals) ==
    /\ CanCall
    /\ qb' = b
    /\ ret' = RetThis
    /\ calls' = Logged(m, fields, vals)
    /\ UNCHANGED <<kept, nonQbVars>>

Throwing(m) ==
    /\ CanCall
    /\ ret' = RetThrow("query_builder")
    /\ calls' = Logged(m, <<>>, <<>>)
    /\ UNCHANGED <<qb, kept, nonQbVars>>

Select == Chain(QSelect(qb, <<"a", "b">>), "select", <<>>, <<>>)

From == \E table \in {"ItemTable", ""} : Chain(QFrom(qb, table), "from", <<>>, <<>>)

Where ==
    \E f \in QFields, v \in QValues :
        Chain(QWhere(qb, <<f, "=", "?">>, <<v>>), "where", <<f>>, <<v>>)

WhereIn ==
    \E values \in {<<>>, <<ValStr>>, <<ValStr, ValObj>>, <<ValObj, ValStr>>} :
        IF WhereInThrows(values)
        THEN Throwing("whereIn")
        ELSE Chain(QWhereIn(qb, "a", values), "whereIn",
                   [i \in 1..Len(values) |-> "a"], values)

WhereLike == Chain(QWhereLike(qb, "b", ValStr), "whereLike", <<"b">>, <<ValStr>>)

WhereBetween ==
    Chain(QWhereBetween(qb, "b", ValStr, ValObj), "whereBetween", <<"b", "b">>,
          <<ValStr, ValObj>>)

Join ==
    \/ \E v \in QValues :
          Chain(QJoin(qb, "INNER", "T2", <<"T2.a", "=", "?">>, <<v>>), "join", <<"T2.a">>, <<v>>)
    \/ Chain(QJoin(qb, "LEFT", "T3", <<"T3.a", "=", "ItemTable.a">>, <<>>), "join", <<>>, <<>>)

GroupBy == Chain(QGroupBy(qb, <<"a">>), "groupBy", <<>>, <<>>)

Having ==
    \E v \in QValues :
        Chain(QHaving(qb, <<"a", ">", "?">>, <<v>>), "having", <<"a">>, <<v>>)

OrderBy == Chain(QOrderBy(qb, "a", "DESC"), "orderBy", <<>>, <<>>)

Limit ==
    \E n \in {-1, 2} :
        IF LimitThrows(n) THEN Throwing("limit")
        ELSE Chain(QLimit(qb, n), "limit", <<>>, <<>>)

Offset ==
    \E n \in {-1, 0} :
        IF LimitThrows(n) THEN Throwing("offset")
        ELSE Chain(QOffset(qb, n), "offset", <<>>, <<>>)

Set ==
    \E f \in QFields, v \in QValues :
        Chain(QSet(qb, f, v), "set", <<f>>, <<v>>)

InsertInputs ==
    { << [field |-> "a", value |-> ValStr] >>,
      << [field |-> "a", value |-> ValObj], [field |-> "b", value |-> ValStr] >>,
      << [field |-> "b", value |-> ValStr], [field |-> "a", value |-> ValStr] >> }

Insert ==
    \E values \in InsertInputs :
        Chain(QInsert(qb, values), "insert",
              [i \in 1..Len(values) |-> values[i].field],
              [i \in 1..Len(values) |-> values[i].value])

Delete == Chain(QDelete(qb), "delete", <<>>, <<>>)

Build ==
    /\ IF BuildThrows(qb)
       THEN ret' = RetThrow("query_builder") /\ UNCHANGED qb
       ELSE /\ qb' = [qb EXCEPT !.params = BuildParams(qb)]
            /\ ret' = RetBuilt(BuildQuery(qb), BuildParams(qb))
    /\ UNCHANGED <<calls, kept, nonQbVars>>

\* the array a caller holds from an earlier build(), after this.params = []
\* has made the builder a new one
KeptAfterBuild(old, b) == old

\* build() by a caller that keeps the first result object it gets
BuildKept ==
    /\ ~BuildThrows(qb)
    /\ qb' = [qb EXCEPT !.params = BuildParams(qb)]
    /\ ret' = RetBuilt(BuildQuery(qb), BuildParams(qb))
    /\ kept' = IF kept = <<>>
               THEN <<[query |-> BuildQuery(qb), params |-> BuildParams(qb)]>>
               ELSE <<[kept[1] EXCEPT !.params = KeptAfterBuild(@, qb)]>>
    /\ UNCHANGED <<calls, nonQbVars>>

Reset ==
    /\ qb' = QReset(qb)
    /\ ret' = RetThis
    /\ calls' = <<>>
    /\ UNCHANGED <<kept, nonQbVars>>

(***************************************************************************)
(* DatabaseService: the connection cache                                   *)
(*   driver "sqlite":          the asynchronous build (await open, await   *)
(*                             initializeSchema, await close)              *)
(*   driver "better-sqlite3":  the synchronous build                       *)
(***************************************************************************)
MaxConns == 3

Drivers == {"sqlite", "better-sqlite3"}
Paths == {"p1", "p2"}
TaskIds == {"t1", "t2"}

NoConn == 0

IdleTask ==
    [ op |-> "none", pc |-> "idle", path |-> "", conn |-> NoConn,
      status |-> "", error |-> "", afterClose |-> FALSE, visited |-> {} ]

ConnIdle ==
    /\ dbConnections = [p \in Paths |-> NoConn]
    /\ conns = <<>>
    /\ dbTasks = [t \in TaskIds |-> IdleTask]

LiveConns(p) == {c \in 1..Len(conns) : conns[c].path = p /\ conns[c].state = "open"}

ClosedConns(p) == {c \in 1..Len(conns) : conns[c].path = p /\ conns[c].state = "closed"}

\* new Database(path) / open({filename}): one more open connection
Opened(cs, p) == Append(cs, [path |-> p, state |-> "open", setup |-> "ok"])

\* the connection stays as it is when what follows its opening throws
SetupFailed(cs, c) == [cs EXCEPT ![c].setup = "failed"]

\* connection.close()
Closed(cs, c) == [cs EXCEPT ![c].state = "closed"]

\* the calls of the tasks that are waiting for open() to answer
PendingOpens == Cardinality({t \in TaskIds : dbTasks[t].pc = "opening"})

Done(task, status, error) == [task EXCEPT !.pc = "done", !.status = status, !.error = error]

Begun(op, p) ==
    [IdleTask EXCEPT !.op = op, !.path = p, !.pc = "start",
                     !.afterClose = (ClosedConns(p) # {})]

\* db.get / stmt.get on a connection: a closed connection refuses the statement
StatementError(cs, c) == cs[c].state = "closed"

(* ---- better-sqlite3: every call runs to its end without suspending ---- *)

\* getConnection: cached, or opened, verified and cached; any failure is 'connect'
SyncGet(t, p) ==
    LET task == Begun("get", p) IN
    IF dbConnections[p] # NoConn
    THEN /\ dbTasks' = [dbTasks EXCEPT ![t] =
                IF StatementError(conns, dbConnections[p])
                THEN Done([task EXCEPT !.conn = dbConnections[p]], "throw", "get")
                ELSE Done([task EXCEPT !.conn = dbConnections[p]], "ok", "")]
         /\ UNCHANGED <<dbConnections, conns>>
    ELSE \/ /\ Len(conns) < MaxConns
            /\ \/ /\ conns' = Opened(conns, p)
                  /\ dbConnections' = [dbConnections EXCEPT ![p] = Len(conns) + 1]
                  /\ dbTasks' = [dbTasks EXCEPT ![t] =
                        Done([task EXCEPT !.conn = Len(conns) + 1], "ok", "")]
               \/ \* pragma / SELECT 1 fails after the file was opened
                  /\ conns' = SetupFailed(Opened(conns, p), Len(conns) + 1)
                  /\ UNCHANGED dbConnections
                  /\ dbTasks' = [dbTasks EXCEPT ![t] = Done(task, "throw", "connect")]
         \/ \* new Database(dbPath) fails
            /\ UNCHANGED <<dbConnections, conns>>
            /\ dbTasks' = [dbTasks EXCEPT ![t] = Done(task, "throw", "connect")]

SyncClose(t, p) ==
    LET task == Begun("close", p) IN
    IF dbConnections[p] # NoConn
    THEN /\ conns' = Closed(conns, dbConnections[p])
         /\ dbConnections' = [dbConnections EXCEPT ![p] = NoConn]
         /\ dbTasks' = [dbTasks EXCEPT ![t] = Done(task, "ok", "")]
    ELSE /\ dbTasks' = [dbTasks EXCEPT ![t] = Done(task, "ok", "")]
         /\ UNCHANGED <<dbConnections, conns>>

SyncCloseAll(t) ==
    /\ conns' = [c \in 1..Len(conns) |->
                    IF \E p \in Paths : dbConnections[p] = c
                    THEN [conns[c] EXCEPT !.state = "closed"]
                    ELSE conns[c]]
    /\ dbConnections' = [p \in Paths |-> NoConn]
    /\ dbTasks' = [dbTasks EXCEPT ![t] = Done(Begun("closeAll", ""), "ok", "")]

DbCallSync ==
    \E t \in TaskIds :
        /\ driver = "better-sqlite3"
        /\ dbTasks[t].pc \in {"idle", "done"}
        /\ \/ \E p \in Paths : SyncGet(t, p)
           \/ \E p \in Paths : SyncClose(t, p)
           \/ SyncCloseAll(t)
        /\ UNCHANGED <<driver, nonConnVars>>

(* ---- sqlite: a call suspends at every await ---- *)

Cached == {p \in Paths : dbConnections[p] # NoConn}

\* the synchronous head of get / close / closeAll, up to its first await
DbCallAsync ==
    \E t \in TaskIds :
        /\ driver = "sqlite"
        /\ dbTasks[t].pc \in {"idle", "done"}
        /\ \/ \E p \in Paths :
                 LET task == Begun("get", p) IN
                 IF dbConnections[p] # NoConn
                 THEN dbTasks' = [dbTasks EXCEPT ![t] =
                         [task EXCEPT !.pc = "gotConn", !.conn = dbConnections[p]]]
                 ELSE /\ Len(conns) + PendingOpens < MaxConns
                      /\ dbTasks' = [dbTasks EXCEPT ![t] = [task EXCEPT !.pc = "opening"]]
           \/ \E p \in Paths :
                 LET task == Begun("close", p) IN
                 IF dbConnections[p] # NoConn
                 THEN dbTasks' = [dbTasks EXCEPT ![t] =
                         [task EXCEPT !.pc = "closing", !.conn = dbConnections[p]]]
                 ELSE dbTasks' = [dbTasks EXCEPT ![t] = Done(task, "ok", "")]
           \/ LET task == Begun("closeAll", "") IN
              IF Cached = {}
              THEN dbTasks' = [dbTasks EXCEPT ![t] = Done(task, "ok", "")]
              ELSE \E p \in Cached :
                      dbTasks' = [dbTasks EXCEPT ![t] =
                          [task EXCEPT !.pc = "closingAll", !.conn = dbConnections[p],
                                       !.visited = {p}]]
        /\ UNCHANGED <<driver, dbConnections, conns, nonConnVars>>

\* await open(...) answers
DbOpened ==
    \E t \in TaskIds :
        /\ dbTasks[t].pc = "opening"
        /\ \/ /\ conns' = Opened(conns, dbTasks[t].path)
              /\ dbTasks' = [dbTasks EXCEPT ![t].pc = "schema", ![t].conn = Len(conns) + 1]
           \/ /\ dbTasks' = [dbTasks EXCEPT ![t] = Done(@, "throw", "connect")]
              /\ UNCHANGED conns
        /\ UNCHANGED <<driver, dbConnections, nonConnVars>>

\* await this.initializeSchema(connection) answers; its 'init_schema' error is
\* caught by getConnection and thrown again as 'connect'
DbSchemaDone ==
    \E t \in TaskIds :
        /\ dbTasks[t].pc = "schema"
        /\ \/ /\ dbConnections' = [dbConnections EXCEPT ![dbTasks[t].path] = dbTasks[t].conn]
              /\ dbTasks' = [dbTasks EXCEPT ![t].pc = "gotConn"]
              /\ UNCHANGED conns
           \/ /\ dbTasks' = [dbTasks EXCEPT ![t] = Done(@, "throw", "connect")]
              /\ conns' = SetupFailed(conns, dbTasks[t].conn)
              /\ UNCHANGED dbConnections
        /\ UNCHANGED <<driver, nonConnVars>>

\* await db.get(...) on the connection getConnection returned
DbRun ==
    \E t \in TaskIds :
        /\ dbTasks[t].pc = "gotConn"
        /\ dbTasks' = [dbTasks EXCEPT ![t] =
              IF StatementError(conns, dbTasks[t].conn)
              THEN Done(@, "throw", "get")
              ELSE Done(@, "ok", "")]
        /\ UNCHANGED <<driver, dbConnections, conns, nonConnVars>>

\* close(): await connection.close() answers, then the entry is deleted.  An
\* entry set again after its deletion is a new entry of the Map, which a
\* closeAll loop that had passed the old one will still reach.
DbClosed ==
    \E t \in TaskIds :
        /\ dbTasks[t].pc = "closing"
        /\ IF conns[dbTasks[t].conn].state = "closed"
           THEN /\ dbTasks' = [dbTasks EXCEPT ![t] = Done(@, "throw", "close")]
                /\ UNCHANGED <<dbConnections, conns>>
           ELSE /\ conns' = Closed(conns, dbTasks[t].conn)
                /\ dbConnections' = [dbConnections EXCEPT ![dbTasks[t].path] = NoConn]
                /\ dbTasks' = [u \in TaskIds |->
                       IF u = t THEN Done(dbTasks[t], "ok", "")
                       ELSE [dbTasks[u] EXCEPT !.visited = @ \ {dbTasks[t].path}]]
        /\ UNCHANGED <<driver, nonConnVars>>

\* closeAll(): one await connection.close() of the loop answers; the loop goes
\* on to the next entry, or ends with dbConnections.clear()
DbCloseAllStep ==
    \E t \in TaskIds :
        /\ dbTasks[t].pc = "closingAll"
        /\ LET task == dbTasks[t]
               failed == conns[task.conn].state = "closed"
               err == IF failed THEN "close_all" ELSE task.error
               rest == Cached \ task.visited
           IN
           /\ conns' = IF failed THEN conns ELSE Closed(conns, task.conn)
           /\ IF rest # {}
              THEN /\ \E p \in rest :
                        dbTasks' = [dbTasks EXCEPT ![t] =
                            [task EXCEPT !.conn = dbConnections[p],
                                         !.visited = @ \cup {p}, !.error = err]]
                   /\ UNCHANGED dbConnections
              ELSE /\ dbConnections' = [p \in Paths |-> NoConn]
                   /\ dbTasks' = [dbTasks EXCEPT ![t] =
                        Done(task, IF err = "" THEN "ok" ELSE "throw", err)]
        /\ UNCHANGED <<driver, nonConnVars>>

(***************************************************************************)
(* JSON.stringify / JSON.parse                                             *)
(***************************************************************************)
JsNull      == [t |-> "null", v |-> "null"]
JsUndefined == [t |-> "undefined", v |-> "undefined"]
JsNaN       == [t |-> "nan", v |-> "NaN"]
\* an object that refers to itself: JSON.stringify throws TypeError
JsCyclic    == [t |-> "cyclic", v |-> "[Circular]"]

StringifyThrows(value) == value.t = "cyclic"

\* JSON.stringify(undefined) is undefined (no text); NaN is written as null
Stringify(value) ==
    IF value.t = "undefined" THEN JsUndefined
    ELSE IF value.t = "nan" THEN JSONText(JsNull)
    ELSE JSONText(value)

ParseThrows(text) == text.t # "json"

Parse(text) == text.v

(***************************************************************************)
(* SQLite: table ItemTable and the statements the program prepares.        *)
(* A statement is [query |-> tokens, params |-> bound values]; a row maps  *)
(* each column to the value stored in it.                                  *)
(***************************************************************************)
Columns == {"key", "value", "created_at", "updated_at"}

\* the schema's DEFAULT for each column: unixepoch() for the timestamps
DefaultRow(now) ==
    [key |-> JsNull, value |-> JsNull, created_at |-> Num(now), updated_at |-> Num(now)]

\* key TEXT PRIMARY KEY, value TEXT NOT NULL, ... INTEGER NOT NULL; undefined cannot be bound
Bindable(row) == \A c \in Columns \ {"key"} : row[c].t \notin {"null", "undefined"}

IndexOf(q, tok) ==
    IF \E i \in 1..Len(q) : q[i] = tok
    THEN CHOOSE i \in 1..Len(q) : q[i] = tok /\ \A j \in 1..(i - 1) : q[j] # tok
    ELSE 0

\* the value of the expression at token i: a placeholder takes the bound
\* value of its position, unixepoch() the clock, excluded.c the proposed row
SqlValue(stmt, i, now, excluded) ==
    LET q == stmt.query IN
    IF q[i] = "?" THEN stmt.params[Cardinality({j \in 1..i : q[j] = "?"})]
    ELSE IF q[i] = "unixepoch()" THEN Num(now)
    ELSE excluded[q[i + 1]]

\* WHERE c = ? AND ...: the row satisfies every comparison after WHERE
Matches(stmt, row) ==
    LET q == stmt.query
        w == IndexOf(q, "WHERE") IN
    w = 0 \/ \A i \in (w + 1)..Len(q) :
                q[i] = "=" => row[q[i - 1]] = SqlValue(stmt, i + 1, 0, row)

\* SET c = e, ...: the row after the assignments between tokens lo and hi
Assigned(stmt, row, lo, hi, now, excluded) ==
    LET q == stmt.query IN
    [c \in Columns |->
        IF \E i \in lo..hi : q[i] = "=" /\ q[i - 1] = c
        THEN SqlValue(stmt, (CHOOSE i \in lo..hi : q[i] = "=" /\ q[i - 1] = c) + 1, now, excluded)
        ELSE row[c]]

\* INSERT INTO t (c1, ...) VALUES (e1, ...): the proposed row
Proposed(stmt, now) ==
    LET q  == stmt.query
        c0 == IndexOf(q, "(")
        v0 == IndexOf(q, "VALUES") + 1
        n  == (IndexOf(q, ")") - c0) \div 2 IN
    [c \in Columns |->
        IF \E k \in 1..n : q[c0 + 2 * k - 1] = c
        THEN SqlValue(stmt, v0 + 2 * (CHOOSE k \in 1..n : q[c0 + 2 * k - 1] = c) - 1,
                      now, DefaultRow(now))
        ELSE DefaultRow(now)[c]]

\* PRIMARY KEY: the rows an INSERT of the proposed row collides with
NoConflicts(tbl, p) == {}
Conflicts(tbl, p) == {i \in 1..Len(tbl) : tbl[i].key = p.key}

\* what the engine answers: whether the statement ran, the table after it,
\* the first row it returned (stmt.get) and the number of rows it changed
Answer(ok, tbl, row, changes) == [ok |-> ok, table |-> tbl, row |-> row, changes |-> changes]

Exec(tbl, prepared, now) ==
    Let(prepared, LAMBDA stmt :
        LET q    == stmt.query
            hit  == {i \in 1..Len(tbl) : Matches(stmt, tbl[i])}
            fail == Answer(FALSE, tbl, <<>>, 0)
        IN
        IF q[1] = "SELECT" THEN
            Answer(TRUE, tbl,
                   IF hit = {} THEN <<>>
                   ELSE <<tbl[CHOOSE i \in hit : \A j \in hit : i <= j]>>, 0)
        ELSE IF q[1] = "DELETE" THEN
            Answer(TRUE, SelectSeq(tbl, LAMBDA r : ~Matches(stmt, r)), <<>>, Cardinality(hit))
        ELSE IF q[1] = "UPDATE" THEN
            LET w  == IndexOf(q, "WHERE")
                hi == IF w = 0 THEN Len(q) ELSE w - 1
            IN Let([i \in 1..Len(tbl) |->
                       IF i \in hit THEN Assigned(stmt, tbl[i], 1, hi, now, tbl[i])
                       ELSE tbl[i]],
                   LAMBDA new :
                       IF \E i \in hit : ~Bindable(new[i]) THEN fail
                       ELSE Answer(TRUE, new, <<>>, Cardinality(hit)))
        ELSE
            Let(Proposed(stmt, now), LAMBDA p :
                LET old == Conflicts(tbl, p)
                    d   == IndexOf(q, "DO")
                IN IF ~Bindable(p) THEN fail
                   ELSE IF old = {} THEN Answer(TRUE, Append(tbl, p), <<>>, 1)
                   ELSE IF d = 0 THEN fail
                   ELSE Answer(TRUE,
                               [i \in 1..Len(tbl) |->
                                   IF i \in old THEN Assigned(stmt, tbl[i], d, Len(q), now, p)
                                   ELSE tbl[i]],
                               <<>>, 1)))

(***************************************************************************)
(* The statements of DatabaseService (raw SQL) and of Workspace (built     *)
(* with QueryBuilder)                                                      *)
(***************************************************************************)
\* build(): { query, params }
Statement(b) == Let(b, LAMBDA built : [query |-> BuildQuery(built), params |-> BuildParams(built)])

DbSetStatement(drv, key, jsonValue) ==
    IF drv = "better-sqlite3" THEN
        [query  |-> <<"INSERT", "INTO", "ItemTable", "(", "key", ",", "value", ")",
                      "VALUES", "(", "?", ",", "?", ")",
                      "ON", "CONFLICT", "(", "key", ")", "DO", "UPDATE", "SET",
                      "value", "=", "?">>,
         params |-> <<Str(key), jsonValue, jsonValue>>]
    ELSE
        [query  |-> <<"INSERT", "INTO", "ItemTable", "(", "key", ",", "value", ",", "updated_at", ")",
                      "VALUES", "(", "?", ",", "?", ",", "unixepoch()", ")",
                      "ON", "CONFLICT", "(", "key", ")", "DO", "UPDATE", "SET",
                      "value", "=", "excluded.", "value", ",",
                      "updated_at", "=", "excluded.", "updated_at">>,
         params |-> <<Str(key), jsonValue>>]

DbGetStatement(key) ==
    [query  |-> <<"SELECT", "value", "FROM", "ItemTable", "WHERE", "key", "=", "?">>,
     params |-> <<Str(key)>>]

DbDeleteStatement(key) ==
    [query  |-> <<"DELETE", "FROM", "ItemTable", "WHERE", "key", "=", "?">>,
     params |-> <<Str(key)>>]

WsKeyQuery(key) == QWhere(QFrom(NewBuilder, "ItemTable"), <<"key", "=", "?">>, <<Str(key)>>)

WsGetQuery(key) ==
    QWhere(QFrom(QSelect(NewBuilder, <<"value">>), "ItemTable"), <<"key", "=", "?">>, <<Str(key)>>)

WsUpdateQueryStale(key, jsonValue) ==
    QSet(WsKeyQuery(key), "updated_at", Str("unixepoch()"))
WsUpdateQuery(key, jsonValue) ==
    QSet(QSet(WsKeyQuery(key), "value", jsonValue), "updated_at", Str("unixepoch()"))

WsInsertQuery(key, jsonValue) ==
    QInsert(QFrom(NewBuilder, "ItemTable"),
            << [field |-> "key",        value |-> Str(key)],
               [field |-> "value",      value |-> jsonValue],
               [field |-> "created_at", value |-> Str("unixepoch()")],
               [field |-> "updated_at", value |-> Str("unixepoch()")] >>)

WsDeleteEveryRow(key) == QDelete(QFrom(NewBuilder, "ItemTable"))

WsDeleteQuery(key) == QDelete(WsKeyQuery(key))

\* Workspace.has: select('1').from('ItemTable').where('key = ?', key)
WsHasQuery(key) ==
    QWhere(QFrom(QSelect(NewBuilder, <<"1">>), "ItemTable"), <<"key", "=", "?">>, <<Str(key)>>)

(***************************************************************************)
(* Workspace (get/set/delete built with QueryBuilder) and DatabaseService  *)
(* (get/set/delete in raw SQL) on the ItemTable of one path.  A call is    *)
(* suspended at each await, so the statements of two calls interleave.     *)
(***************************************************************************)
MaxStoreCalls == 3
MaxClock == 2

Keys == {"k1", "k2"}
StoreValues == {Num(1), Obj("{a:1}"), JsNaN, JsUndefined, JsCyclic}
Apis == {"ws", "db"}

Bool(b) == [t |-> "bool", v |-> b]

IdleCall ==
    [ op |-> "none", api |-> "ws", pc |-> "done", key |-> "k1", value |-> JsUndefined,
      jsonValue |-> JsUndefined, exists |-> FALSE, status |-> "", result |-> JsUndefined,
      error |-> "", alone |-> TRUE, expect |-> <<>>, fault |-> FALSE ]

\* a database file that holds no row, or one row written earlier
StoredTables ==
    { <<>>,
      << [key |-> Str("k1"), value |-> JSONText(Num(1)),
          created_at |-> Num(0), updated_at |-> Num(0)] >> }

StoreIdle ==
    /\ ItemTable = <<>>
    /\ clock = 1
    /\ wsTasks = [t \in TaskIds |-> IdleCall]
    /\ lastSet = [k \in Keys |-> <<>>]
    /\ storeCalls = 0

CanStart(t) == wsTasks[t].pc = "done" /\ storeCalls < MaxStoreCalls

Started(t, call) ==
    /\ wsTasks' = [wsTasks EXCEPT ![t] = call]
    /\ storeCalls' = storeCalls + 1
    /\ UNCHANGED <<ItemTable, clock, lastSet>>

Returned(call, result) == [call EXCEPT !.pc = "done", !.status = "ok", !.result = result]

Thrown(call, error) == [call EXCEPT !.pc = "done", !.status = "throw", !.error = error]

\* the calls after call t ran a statement that wrote key: the other calls
\* in flight on that key are no longer alone with it
Written(t, call, key) ==
    [u \in TaskIds |->
        IF u = t THEN call
        ELSE IF wsTasks[u].pc # "done" /\ wsTasks[u].key = key
        THEN [wsTasks[u] EXCEPT !.alone = FALSE]
        ELSE wsTasks[u]]

\* unixepoch() moves on
Tick ==
    /\ clock < MaxClock
    /\ clock' = clock + 1
    /\ UNCHANGED <<ItemTable, wsTasks, lastSet, storeCalls>>
    /\ UNCHANGED <<nonStoreVars, notepadVars>>

\* set(key, value) up to its first statement: JSON.stringify
StoreSet ==
    \E t \in TaskIds, api \in Apis, key \in Keys, value \in StoreValues :
        LET call == [IdleCall EXCEPT !.op = "set", !.api = api, !.key = key, !.value = value] IN
        /\ CanStart(t)
        /\ Started(t,
             IF StringifyThrows(value)
             THEN Thrown(call, IF api = "db" /\ driver = "better-sqlite3"
                               THEN "TypeError" ELSE "JsonError:stringify")
             ELSE [call EXCEPT !.jsonValue = Stringify(value),
                               !.pc = IF api = "ws" THEN "check" ELSE "write"])
        /\ UNCHANGED <<nonStoreVars, notepadVars>>

StoreGet ==
    \E t \in TaskIds, api \in Apis, key \in Keys :
        /\ CanStart(t)
        /\ Started(t, [IdleCall EXCEPT !.op = "get", !.api = api, !.key = key, !.pc = "read"])
        /\ UNCHANGED <<nonStoreVars, notepadVars>>

StoreDelete ==
    \E t \in TaskIds, api \in Apis, key \in Keys :
        /\ CanStart(t)
        /\ Started(t, [IdleCall EXCEPT !.op = "delete", !.api = api, !.key = key, !.pc = "delete"])
        /\ UNCHANGED <<nonStoreVars, notepadVars>>

\* Workspace.set: const exists = await this.dbService.queryOne(...)
SetCheck ==
    \E t \in TaskIds :
        LET call == wsTasks[t]
            r    == Exec(ItemTable, Statement(WsKeyQuery(call.key)), clock) IN
        /\ call.pc = "check"
        /\ wsTasks' = [wsTasks EXCEPT ![t] = [call EXCEPT !.pc = "write", !.exists = r.row # <<>>]]
        /\ UNCHANGED <<ItemTable, clock, lastSet, storeCalls>>
        /\ UNCHANGED <<nonStoreVars, notepadVars>>

\* the statement set() writes with
SetStatementOf(call) ==
    IF call.api = "db" THEN DbSetStatement(driver, call.key, call.jsonValue)
    ELSE IF call.exists THEN Statement(WsUpdateQuery(call.key, call.jsonValue))
    ELSE Statement(WsInsertQuery(call.key, call.jsonValue))

\* what is remembered of the last set of a key that ran alone and wrote its row
SetRecord(call, tbl, before) ==
    LET row == tbl[CHOOSE i \in 1..Len(tbl) : tbl[i].key = Str(call.key)] IN
    << [ value   |-> call.value,
         api     |-> call.api,
         how     |-> IF Conflicts(ItemTable, [key |-> Str(call.key)]) = {}
                     THEN "insert" ELSE "update",
         updated |-> row.updated_at,
         prev    |-> IF before = <<>> THEN <<>>
                     ELSE << [value |-> before[1].value, api |-> before[1].api,
                              updated |-> before[1].updated] >> ] >>

\* set(): the write statement runs; every error of it is a DatabaseError 'set'
SetWrite ==
    \E t \in TaskIds :
        LET call == wsTasks[t] IN
        /\ call.pc = "write"
        /\ \E r \in {Exec(ItemTable, SetStatementOf(call), clock)} :
               /\ ItemTable' = r.table
               /\ wsTasks' = IF r.ok THEN Written(t, Returned(call, JsUndefined), call.key)
                              ELSE [wsTasks EXCEPT ![t] = Thrown(call, "DatabaseError:set")]
               /\ lastSet' = IF ~r.ok THEN lastSet
                             ELSE [lastSet EXCEPT ![call.key] =
                                      IF call.alone THEN SetRecord(call, r.table, @) ELSE <<>>]
        /\ UNCHANGED <<clock, storeCalls>>
        /\ UNCHANGED <<nonStoreVars, notepadVars>>

\* get(): try { return JSON.parse(result.value) } catch { throw new JsonError(..., 'parse') }
DecodedOrNull(call, text) ==
    IF ParseThrows(text) THEN Returned(call, JsNull) ELSE Returned(call, Parse(text))

Decoded(call, text) ==
    IF ParseThrows(text) THEN Thrown(call, "JsonError:parse") ELSE Returned(call, Parse(text))

\* get(): the SELECT runs; null for no row, else JSON.parse of the value
GetRead ==
    \E t \in TaskIds :
        LET call == [wsTasks[t] EXCEPT !.expect = lastSet[wsTasks[t].key]]
            stmt == IF call.api = "db" THEN DbGetStatement(call.key)
                    ELSE Statement(WsGetQuery(call.key))
        IN
        /\ wsTasks[t].pc = "read"
        /\ \E r \in {Exec(ItemTable, stmt, clock)} :
               wsTasks' = [wsTasks EXCEPT ![t] =
                   IF r.row = <<>> THEN Returned(call, JsNull)
                   ELSE Decoded(call, r.row[1].value)]
        /\ UNCHANGED <<ItemTable, clock, lastSet, storeCalls>>
        /\ UNCHANGED <<nonStoreVars, notepadVars>>

\* get(): the database fails the SELECT; every error that is not a JsonError
\* leaves get() as DatabaseError 'get'
GetFails ==
    \E t \in TaskIds :
        /\ wsTasks[t].pc = "read"
        /\ wsTasks' = [wsTasks EXCEPT ![t] =
               Thrown([wsTasks[t] EXCEPT !.fault = TRUE], "DatabaseError:get")]
        /\ UNCHANGED <<ItemTable, clock, lastSet, storeCalls>>
        /\ UNCHANGED <<nonStoreVars, notepadVars>>

\* a database file whose row for k1 is missing, holds JSON (1, null, an
\* object) or holds text that is not JSON
ReadTables ==
    {<<>>} \cup
    { <<[key |-> Str("k1"), value |-> text, created_at |-> Num(0), updated_at |-> Num(0)]>> :
        text \in {JSONText(Num(1)), JSONText(JsNull), JSONText(Obj("{a:1}")), Str("{oops")} }

\* delete(): the DELETE runs; true when it removed a row
DeleteRun ==
    \E t \in TaskIds :
        LET call == wsTasks[t]
            stmt == IF call.api = "db" THEN DbDeleteStatement(call.key)
                    ELSE Statement(WsDeleteQuery(call.key))
        IN
        /\ call.pc = "delete"
        /\ \E r \in {Exec(ItemTable, stmt, clock)} :
               /\ ItemTable' = r.table
               /\ wsTasks' = Written(t, Returned(call, Bool(r.changes > 0)), call.key)
        /\ lastSet' = [lastSet EXCEPT ![call.key] = <<>>]
        /\ UNCHANGED <<clock, storeCalls>>
        /\ UNCHANGED <<nonStoreVars, notepadVars>>

(***************************************************************************)
(* Notepad and NotepadManager.  The collection is one JSON blob            *)
(* { notepadDataVersion, notepads: id -> NotepadInfo } stored under each   *)
(* of the storage keys; a call is suspended at every workspace.get and     *)
(* workspace.set, so the calls of two callers interleave there.            *)
(***************************************************************************)
MaxNotepadCalls == 3

storageKeys == <<"notepadData", "notepad.reactiveStorageId">>
STORAGE_KEY == "notepadData"

Ids == {"n1", "n2"}
NameInputs == {"", "  ", " Notes "}
TextInputs == {Undefined, Some(" hi ")}

\* String.prototype.trim on the inputs used
Trim(s) == IF s = "  " THEN "" ELSE IF s = " Notes " THEN "Notes"
           ELSE IF s = " hi " THEN "hi" ELSE s

\* !value
Falsy(value) ==
    \/ value.t \in {"null", "undefined", "nan"}
    \/ value.t = "num" /\ value.v = 0
    \/ value.t = "str" /\ value.v = ""
    \/ value.t = "bool" /\ value.v = FALSE

NoNotepads == [id \in {} |-> id]

\* { notepadDataVersion: 0, notepads: {} }
EmptyData == Obj([notepadDataVersion |-> 0, notepads |-> NoNotepads])

isValidNotepadData(data) ==
    Let(data, LAMBDA d :
        ~Falsy(d) /\ d.t = "obj" /\ {"notepadDataVersion", "notepads"} \subseteq DOMAIN d.v)

\* data.notepads is an object: data.notepads[id] can be read and assigned
HasNotepads(data) == data.t = "obj" /\ "notepads" \in DOMAIN data.v

\* setName / createNotepad: !name || name.trim().length === 0
InvalidNameEmptyOnly(name) == name = ""

InvalidName(name) == name = "" \/ Trim(name) = ""

\* data.notepads[id] = info
WithNotepadUnderName(data, id, info) ==
    Obj([data.v EXCEPT !.notepads =
            [x \in DOMAIN data.v.notepads \cup {info.name} |->
                IF x = info.name THEN info ELSE data.v.notepads[x]]])

WithNotepad(data, id, info) ==
    Obj([data.v EXCEPT !.notepads =
            [x \in DOMAIN data.v.notepads \cup {id} |->
                IF x = id THEN info ELSE data.v.notepads[x]]])

\* delete data.notepads[id]
WithoutAnyNotepad(data, id) == Obj([data.v EXCEPT !.notepads = NoNotepads])

WithoutNotepad(data, id) ==
    Obj([data.v EXCEPT !.notepads = [x \in DOMAIN data.v.notepads \ {id} |-> data.v.notepads[x]]])

\* what a call of the store or of the manager comes back with
Outcome(ok, value, error) == [ok |-> ok, value |-> value, error |-> error]

\* await workspace.get(key)
WsGetNow(tbl, key) ==
    Let(Exec(tbl, Statement(WsGetQuery(key)), 0), LAMBDA r :
        IF r.row = <<>> THEN Outcome(TRUE, JsNull, "")
        ELSE IF ParseThrows(r.row[1].value) THEN Outcome(FALSE, JsUndefined, "JsonError:parse")
        ELSE Outcome(TRUE, Parse(r.row[1].value), ""))

\* await workspace.set(key, value): the table after it and whether it ran
WsSetNow(tbl, key, value, now) ==
    IF StringifyThrows(value) THEN Answer(FALSE, tbl, <<>>, 0)
    ELSE IF Exec(tbl, Statement(WsKeyQuery(key)), now).row # <<>>
    THEN Exec(tbl, Statement(WsUpdateQuery(key, Stringify(value))), now)
    ELSE Exec(tbl, Statement(WsInsertQuery(key, Stringify(value))), now)

\* NotepadManager.getNotepadData
getNotepadData(tbl) ==
    Let(WsGetNow(tbl, STORAGE_KEY), LAMBDA g :
        IF ~g.ok THEN g
        ELSE IF Falsy(g.value) THEN Outcome(TRUE, EmptyData, "")
        ELSE IF ~isValidNotepadData(g.value)
        THEN Outcome(FALSE, JsUndefined, "DataValidationError")
        ELSE g)

\* catch (error) { throw new NotepadError(...) }: what createNotepad's catch does
WrappedAlways(error) == "NotepadError"

\* catch (error) { if (error instanceof DataValidationError) throw error;
\*                 throw new NotepadError(...) }
Rethrown(error) == IF error = "DataValidationError" THEN error ELSE "NotepadError"

\* NotepadManager.getNotepad: the record of id in the primary blob, or null
getNotepad(tbl, id) ==
    Let(getNotepadData(tbl), LAMBDA d :
        IF ~d.ok
        THEN Outcome(FALSE, JsUndefined, Rethrown(d.error))
        ELSE IF id \in DOMAIN d.value.v.notepads
        THEN Outcome(TRUE, Obj(d.value.v.notepads[id]), "")
        ELSE Outcome(TRUE, JsNull, ""))

\* NotepadManager.getAll: the records of the primary blob (in no order)
getAll(tbl) ==
    Let(getNotepadData(tbl), LAMBDA d :
        IF ~d.ok
        THEN Outcome(FALSE, JsUndefined, Rethrown(d.error))
        ELSE Outcome(TRUE, [t |-> "list",
                            v |-> {d.value.v.notepads[x] : x \in DOMAIN d.value.v.notepads}], ""))

\* the storage keys whose blob holds a record under id
MirrorsWith(tbl, id) ==
    {i \in 1..Len(storageKeys) :
        Let(WsGetNow(tbl, storageKeys[i]), LAMBDA g :
            g.ok /\ HasNotepads(g.value) /\ id \in DOMAIN g.value.v.notepads)}

\* a caller: the call it made last (op, arg, id, data: the Notepad's this.data,
\* i: the position in storageKeys, blob: the loaded and changed collection,
\* success), the Notepad instance it holds (held), and history: the keys
\* whose blob held the id when the call began (had), the keys the call has
\* written (wrote), whether no other writing call ran during it (alone)
IdleNotepadCall ==
    [ op |-> "none", pc |-> "done", call |-> 0, id |-> "", data |-> [id |-> "", name |-> "", text |-> ""],
      i |-> 1, blob |-> JsNull, success |-> FALSE, had |-> {},
      status |-> "", result |-> JsUndefined, error |-> "",
      arg |-> "", held |-> <<>>, before |-> <<>>, wrote |-> {}, alone |-> TRUE ]

\* a database file in which each storage key is absent or holds an empty
\* collection, of format version 0 under the first key and 1 under the second
NotepadTables ==
    { SelectSeq([i \in 1..Len(storageKeys) |->
                    [key |-> Str(storageKeys[i]),
                     value |-> JSONText(Obj([notepadDataVersion |-> i - 1,
                                             notepads |-> NoNotepads])),
                     created_at |-> Num(0), updated_at |-> Num(0)]],
                LAMBDA r : r.key.v \in present) : present \in SUBSET Range(storageKeys) }

\* what a database file may hold under the collection key: JSON that is not
\* a collection, a collection without its notepads, an empty collection
BlobInputs ==
    { JsNull, Num(0), Bool(FALSE), Str(""), Str("abc"),
      Obj([notepadDataVersion |-> 0]), EmptyData }

\* a database file with no row for the collection key, or with one of BlobInputs
BlobTables ==
    {<<>>} \cup
    { <<[key |-> Str(STORAGE_KEY), value |-> JSONText(blob),
         created_at |-> Num(0), updated_at |-> Num(0)]>> : blob \in BlobInputs }

\* SELECT finds a row for key
HasRow(tbl, key) == Exec(tbl, Statement(WsKeyQuery(key)), 0).row # <<>>

NotepadIdle ==
    /\ npTasks = [t \in TaskIds |-> IdleNotepadCall]
    /\ usedIds = {}
    /\ npCalls = 0

\* a caller makes its next call
NpBegun(t, op, id) ==
    [IdleNotepadCall EXCEPT !.op = op, !.id = id, !.call = npCalls + 1,
                            !.had = MirrorsWith(ItemTable, id),
                            !.held = npTasks[t].held,
                            !.before = npTasks[t].held,
                            !.alone = \A u \in TaskIds \ {t} : npTasks[u].pc = "done"]

\* caller t is now in call c, which will write: the writing calls in flight
\* are no longer alone
Calling(t, c) ==
    [u \in TaskIds |-> IF u = t THEN c
                       ELSE IF npTasks[u].pc = "done" THEN npTasks[u]
                       ELSE [npTasks[u] EXCEPT !.alone = FALSE]]

CanCallNotepad(t) == npTasks[t].pc = "done" /\ npCalls < MaxNotepadCalls

\* the for loop over storageKeys moves on; after the last key the call returns
Continue(c) ==
    IF c.i < Len(storageKeys) THEN [c EXCEPT !.i = c.i + 1, !.pc = "load"]
    ELSE IF c.op = "delete" THEN Returned(c, Bool(c.success))
    ELSE IF c.op = "create" THEN Returned([c EXCEPT !.held = <<c.data>>], Obj(c.data))
    ELSE Returned(c, JsUndefined)

\* save() / delete(): catch (error) { throw new NotepadError(...) }
SaveFailedSilently(c) == Continue(c)

SaveFailed(c) == Thrown(c, "NotepadError")

\* a createNotepad that rejects only the empty name
NameMissingEmptyOnly(name) == name = ""

\* !input.name || input.name.trim().length === 0
NameMissing(name) == name = "" \/ Trim(name) = ""

\* createNotepad(input) up to the first await of notepad.save()
NpCreate ==
    \E t \in TaskIds, name \in NameInputs, text \in TextInputs, id \in Ids \ usedIds :
        /\ CanCallNotepad(t)
        /\ npCalls' = npCalls + 1
        /\ IF NameMissing(name)
           THEN /\ npTasks' = [npTasks EXCEPT ![t] =
                       Thrown([NpBegun(t, "create", "") EXCEPT !.arg = name],
                              "DataValidationError")]
                /\ usedIds' = usedIds
           ELSE /\ npTasks' = Calling(t,
                       [NpBegun(t, "create", id) EXCEPT
                           !.pc = "load",
                           !.arg = name,
                           !.data = [id |-> id, name |-> Trim(name),
                                     text |-> IF text = Undefined THEN "" ELSE Trim(text[1])]])
                /\ usedIds' = usedIds \cup {id}
        /\ UNCHANGED <<ItemTable, clock, wsTasks, lastSet, storeCalls>>
        /\ UNCHANGED nonStoreVars

\* getNotepad(id)
NpGet ==
    \E t \in TaskIds, id \in Ids :
        /\ CanCallNotepad(t)
        /\ npCalls' = npCalls + 1
        /\ \E g \in {getNotepad(ItemTable, id)} :
               npTasks' = [npTasks EXCEPT ![t] =
                   IF ~g.ok THEN Thrown(NpBegun(t, "get", id), g.error)
                   ELSE IF g.value.t = "null" THEN Returned(NpBegun(t, "get", id), g.value)
                   ELSE Returned([NpBegun(t, "get", id) EXCEPT !.held = <<g.value.v>>], g.value)]
        /\ UNCHANGED <<usedIds, ItemTable, clock, wsTasks, lastSet, storeCalls>>
        /\ UNCHANGED nonStoreVars

\* getAll()
NpGetAll ==
    \E t \in TaskIds :
        /\ CanCallNotepad(t)
        /\ npCalls' = npCalls + 1
        /\ \E g \in {getAll(ItemTable)} :
               npTasks' = [npTasks EXCEPT ![t] =
                   IF g.ok THEN Returned(NpBegun(t, "getAll", ""), g.value)
                   ELSE Thrown(NpBegun(t, "getAll", ""), g.error)]
        /\ UNCHANGED <<usedIds, ItemTable, clock, wsTasks, lastSet, storeCalls>>
        /\ UNCHANGED nonStoreVars

\* deleteNotepad(id) up to the first await of notepad.delete()
NpDelete ==
    \E t \in TaskIds, id \in Ids :
        /\ CanCallNotepad(t)
        /\ npCalls' = npCalls + 1
        /\ \E g \in {getNotepad(ItemTable, id)}, c \in {NpBegun(t, "delete", id)} :
               npTasks' =
                   IF ~g.ok THEN [npTasks EXCEPT ![t] = Thrown(c, Rethrown(g.error))]
                   ELSE IF g.value.t = "null"
                   THEN [npTasks EXCEPT ![t] = Returned(c, Bool(FALSE))]
                   ELSE Calling(t, [c EXCEPT !.pc = "load", !.data = g.value.v])
        /\ UNCHANGED <<usedIds, ItemTable, clock, wsTasks, lastSet, storeCalls>>
        /\ UNCHANGED nonStoreVars

\* save() / delete(): const data = await this.workspace.get(key), and the
\* change made to the loaded blob
NpLoad ==
    \E t \in TaskIds :
        LET c == npTasks[t] IN
        /\ c.pc = "load"
        /\ \E g \in {WsGetNow(ItemTable, storageKeys[c.i])} :
               npTasks' = [npTasks EXCEPT ![t] =
                   IF ~g.ok THEN SaveFailed(c)
                   ELSE IF Falsy(g.value) THEN Continue(c)
                   ELSE IF ~HasNotepads(g.value) THEN SaveFailed(c)
                   ELSE IF c.op = "delete"
                   THEN IF c.id \notin DOMAIN g.value.v.notepads THEN Continue(c)
                        ELSE [c EXCEPT !.pc = "store", !.blob = WithoutNotepad(g.value, c.id)]
                   ELSE [c EXCEPT !.pc = "store", !.blob = WithNotepad(g.value, c.id, c.data)]]
        /\ UNCHANGED <<npCalls, usedIds, ItemTable, clock, wsTasks, lastSet, storeCalls>>
        /\ UNCHANGED nonStoreVars

\* save() / delete(): await this.workspace.set(key, data); the database may
\* fail the statement (fault), and then workspace.set throws
NpStore ==
    \E t \in TaskIds, fault \in BOOLEAN :
        LET c == npTasks[t] IN
        /\ c.pc = "store"
        /\ \E r \in {IF fault THEN Answer(FALSE, ItemTable, <<>>, 0)
                      ELSE WsSetNow(ItemTable, storageKeys[c.i], c.blob, clock)} :
               /\ ItemTable' = r.table
               /\ npTasks' = [npTasks EXCEPT ![t] =
                      IF r.ok THEN Continue([c EXCEPT !.success = (c.op = "delete"),
                                                      !.wrote = @ \cup {c.i}])
                      ELSE SaveFailed(c)]
        /\ UNCHANGED <<npCalls, usedIds, clock, wsTasks, lastSet, storeCalls>>
        /\ UNCHANGED nonStoreVars

\* notepad.setName(name) on the Notepad the caller holds, up to the first
\* await of this.save()
NpSetName ==
    \E t \in TaskIds, name \in NameInputs :
        /\ CanCallNotepad(t)
        /\ npTasks[t].held # <<>>
        /\ npCalls' = npCalls + 1
        /\ \E info \in {npTasks[t].held[1]} :
           \E c \in {[NpBegun(t, "setName", info.id) EXCEPT !.arg = name]} :
               npTasks' =
                   IF InvalidName(name)
                   THEN [npTasks EXCEPT ![t] = Thrown(c, "DataValidationError")]
                   ELSE Calling(t, [c EXCEPT !.pc = "load",
                                             !.data = [info EXCEPT !.name = Trim(name)],
                                             !.held = <<[info EXCEPT !.name = Trim(name)]>>])
        /\ UNCHANGED <<usedIds, ItemTable, clock, wsTasks, lastSet, storeCalls>>
        /\ UNCHANGED nonStoreVars

\* notepad.setText(text), up to the first await of this.save()
NpSetText ==
    \E t \in TaskIds, text \in TextInputs :
        /\ CanCallNotepad(t)
        /\ npTasks[t].held # <<>>
        /\ npCalls' = npCalls + 1
        /\ \E info \in {npTasks[t].held[1]} :
           \E c \in {NpBegun(t, "setText", info.id)} :
               npTasks' =
                   IF text = Undefined
                   THEN [npTasks EXCEPT ![t] = Thrown(c, "DataValidationError")]
                   ELSE Calling(t, [c EXCEPT !.pc = "load", !.arg = text[1],
                                             !.data = [info EXCEPT !.text = text[1]],
                                             !.held = <<[info EXCEPT !.text = text[1]]>>])
        /\ UNCHANGED <<usedIds, ItemTable, clock, wsTasks, lastSet, storeCalls>>
        /\ UNCHANGED nonStoreVars

\* notepad.save(), up to its first await
NpSave ==
    \E t \in TaskIds :
        /\ CanCallNotepad(t)
        /\ npTasks[t].held # <<>>
        /\ npCalls' = npCalls + 1
        /\ \E info \in {npTasks[t].held[1]} :
           \E c \in {NpBegun(t, "save", info.id)} :
               npTasks' = Calling(t, [c EXCEPT !.pc = "load", !.data = info])
        /\ UNCHANGED <<usedIds, ItemTable, clock, wsTasks, lastSet, storeCalls>>
        /\ UNCHANGED nonStoreVars

(***************************************************************************)
(* useWorkspaceStore (renderer)                                            *)
(***************************************************************************)
\* the values of string | null
NoString == "null"

initialState ==
    [ workspaces |-> <<>>, selectedWorkspaceId |-> NoString,
      isLoading |-> FALSE, error |-> NoString ]

\* zustand set(partial): the fields of partial replace those of the state
Merged(state, partial) ==
    [k \in DOMAIN state |-> IF k \in DOMAIN partial THEN partial[k] ELSE state[k]]

\* a reset that restores every field but the error
UiResetKeepsError(state) == Merged(state, [k \in DOMAIN initialState \ {"error"} |-> initialState[k]])

\* reset: set(initialState)
UiReset(state) == Merged(state, initialState)

WorkspaceInfos == {"1", "2"}
WorkspaceLists == {<<>>, <<"1">>, <<"2">>, <<"1", "2">>, <<"2", "1">>}
ErrorTexts == {NoString, "Test error", "Other error"}

UiIdle ==
    /\ uiStore = initialState
    /\ uiCall = [op |-> "none", changed |-> FALSE]

UiCalled(op, state) ==
    /\ uiStore' = state
    /\ uiCall' = [op |-> op, changed |-> uiStore # initialState]
    /\ UNCHANGED nonUiVars

setWorkspaces ==
    \E ws \in WorkspaceLists : UiCalled("setWorkspaces", Merged(uiStore, [workspaces |-> ws]))

setSelectedWorkspaceId ==
    \E id \in WorkspaceInfos :
        UiCalled("setSelectedWorkspaceId", Merged(uiStore, [selectedWorkspaceId |-> id]))

setLoading ==
    \E loadingNow \in BOOLEAN : UiCalled("setLoading", Merged(uiStore, [isLoading |-> loadingNow]))

setError ==
    \E error \in ErrorTexts : UiCalled("setError", Merged(uiStore, [error |-> error]))

reset == UiCalled("reset", UiReset(uiStore))

(***************************************************************************)
(* WorkspaceManager: initialize, loadWorkspaces, getWorkspaces             *)
(*   wm.probes: the build that creates each directory, checks for its      *)
(*   workspace.json and reads 'notepadData' from its state.vscdb before    *)
(*   reading workspace.json; the other build reads workspace.json only     *)
(***************************************************************************)
MaxWmCalls == 2

\* what fs.readdir(workspacePath) lists, in its order
Dirs == <<"images", "w1", "w2">>
Candidates == {"w1", "w2"}

\* workspace.json of a directory entry:
\*   "nodir"      the entry cannot be made a directory (mkdir fails)
\*   "missing"    no workspace.json
\*   "unreadable" workspace.json exists, readFile fails
\*   "malformed"  its text is not JSON
\*   "nofolder"   its JSON has no folder string
\*   "ok"         its JSON names a folder
Descriptors == {"nodir", "missing", "unreadable", "malformed", "nofolder", "ok"}

\* what dbService.get(dbPath, 'notepadData') does
ProbeOutcomes == {"ok", "DatabaseError", "JsonError"}

Disks ==
    [ root : {"ok", "denied"},
      entry : [Candidates -> [descriptor : Descriptors, probe : ProbeOutcomes]] ]

\* conns: the connections that are open, each in the dbConnections of the
\* DatabaseService that opened it; handles: the Workspace objects made so
\* far; run: the load that made this.workspaces; shut: close() was the last
\* call; failed: the connections whose close threw in it
IdleManager ==
    [ probes |-> TRUE, workspaces |-> <<>>, op |-> "none", pc |-> "idle",
      status |-> "", result |-> <<>>, calls |-> 0, loaded |-> FALSE,
      conns |-> {}, handles |-> {}, run |-> 0, shut |-> FALSE, failed |-> {} ]

\* the WorkspaceManager's own DatabaseService (this.dbService = new
\* DatabaseService() in its constructor)
ManagerService == [id |-> "manager", run |-> 0]

\* the Workspace made for entry d by load n, which owns a DatabaseService of
\* its own (this.dbService = new DatabaseService() in its constructor)
Handle(d, n) == [id |-> d, run |-> n]

\* the connection to the state.vscdb of entry d held by service owner
Connection(owner, d) == [owner |-> owner, path |-> d]

NotLoading == [d \in Range(Dirs) |-> [pc |-> "idle", result |-> "null"]]

DiscIdle ==
    /\ disk = [root |-> "ok",
               entry |-> [d \in Candidates |-> [descriptor |-> "ok", probe |-> "ok"]]]
    /\ wm = IdleManager
    /\ loading = NotLoading

\* the callback of one entry returns
Resolved(result) == [pc |-> "done", result |-> result]

\* a probe that excludes the entry whatever the error is
ProbeExcludesAlways(outcome) == outcome # "ok"

\* if (error instanceof DatabaseError) return null
ProbeExcludes(outcome) == outcome = "DatabaseError"

\* a callback up to its first await
CallbackBegun(d) ==
    IF wm.probes /\ d = "images" THEN Resolved("null")
    ELSE [pc |-> IF wm.probes THEN "mkdir" ELSE "read", result |-> "null"]

CanCallManager == wm.pc \in {"idle", "done"} /\ wm.calls < MaxWmCalls

\* loadWorkspaces up to the callbacks' first awaits; fs.mkdir / fs.readdir of
\* the root throw when it cannot be accessed
Load(op) ==
    IF disk.root # "ok"
    THEN /\ wm' = [wm EXCEPT !.op = op, !.pc = "done", !.status = "throw",
                               !.result = <<>>, !.calls = @ + 1, !.loaded = TRUE,
                               !.shut = FALSE]
         /\ UNCHANGED loading
    ELSE /\ wm' = [wm EXCEPT !.op = op, !.pc = "loading", !.status = "",
                               !.result = <<>>, !.calls = @ + 1, !.loaded = TRUE,
                               !.shut = FALSE]
         /\ loading' = [d \in Range(Dirs) |-> CallbackBegun(d)]

\* initialize()
WmInitialize ==
    /\ CanCallManager
    /\ Load("initialize")
    /\ UNCHANGED <<disk, nonDiscVars>>

\* getWorkspaces()
WmGetWorkspaces ==
    /\ CanCallManager
    /\ IF Len(wm.workspaces) = 0
       THEN Load("getWorkspaces")
       ELSE /\ wm' = [wm EXCEPT !.op = "getWorkspaces", !.pc = "done", !.status = "ok",
                                  !.result = wm.workspaces, !.calls = @ + 1,
                                  !.loaded = FALSE, !.shut = FALSE]
            /\ UNCHANGED loading
    /\ UNCHANGED <<disk, nonDiscVars>>

Advance(d, next) ==
    /\ loading' = [loading EXCEPT ![d] = next]
    /\ UNCHANGED <<disk, wm, nonDiscVars>>

\* await fs.mkdir(workspaceDir, { recursive: true })
LocMkdir ==
    \E d \in Range(Dirs) :
        /\ loading[d].pc = "mkdir"
        /\ Advance(d, IF disk.entry[d].descriptor = "nodir" THEN Resolved("null")
                       ELSE [loading[d] EXCEPT !.pc = "access"])

\* await fs.access(workspaceJsonPath)
LocAccess ==
    \E d \in Range(Dirs) :
        /\ loading[d].pc = "access"
        /\ Advance(d, IF disk.entry[d].descriptor = "missing" THEN Resolved("null")
                       ELSE [loading[d] EXCEPT !.pc = "probe"])

\* await this.dbService.get(dbPath, 'notepadData'): getConnection opens the
\* file and keeps the connection in the manager's dbConnections; a
\* DatabaseError comes from getConnection (nothing is kept) or from the
\* statement (the connection is kept)
LocProbe ==
    \E d \in Range(Dirs), connects \in BOOLEAN :
        /\ loading[d].pc = "probe"
        /\ disk.entry[d].probe # "DatabaseError" => connects
        /\ loading' = [loading EXCEPT ![d] =
               IF ProbeExcludes(disk.entry[d].probe) THEN Resolved("null")
               ELSE [loading[d] EXCEPT !.pc = "read"]]
        /\ wm' = [wm EXCEPT !.conns =
               IF connects THEN @ \cup {Connection(ManagerService, d)} ELSE @]
        /\ UNCHANGED <<disk, nonDiscVars>>

\* await fs.readFile(workspaceJsonPath), JSON.parse, workspaceJson.folder
LocRead ==
    \E d \in Range(Dirs) :
        /\ loading[d].pc = "read"
        /\ Advance(d, IF d \in Candidates /\ disk.entry[d].descriptor = "ok"
                       THEN Resolved("info") ELSE Resolved("null"))

\* Promise.all resolves: this.workspaces = the results that are not null
WmLoaded ==
    /\ wm.pc = "loading"
    /\ \A d \in Range(Dirs) : loading[d].pc = "done"
    /\ \E ws \in {SelectSeq(Dirs, LAMBDA d : loading[d].result = "info")} :
           wm' = [wm EXCEPT !.workspaces = ws, !.pc = "done", !.status = "ok",
                            !.result = IF wm.op = "getWorkspaces" THEN ws ELSE <<>>,
                            !.run = wm.calls,
                            !.handles = @ \cup {Handle(d, wm.calls) : d \in Range(ws)}]
    /\ loading' = NotLoading
    /\ UNCHANGED <<disk, nonDiscVars>>

\* the Workspace objects in this.workspaces
Managed == {Handle(d, wm.run) : d \in Range(wm.workspaces)}

\* workspace.get(key) / set(key, value) on a Workspace the caller holds, on
\* a database that opens: its DatabaseService keeps the connection
WsOpen ==
    \E h \in wm.handles :
        /\ wm' = [wm EXCEPT !.conns = @ \cup {Connection(h, h.id)},
                            !.shut = FALSE]
        /\ UNCHANGED <<disk, loading, nonDiscVars>>

\* WorkspaceManager.close(): every workspace.close() runs up to its await
\* inside the map; connection.close() may throw for some of them (failing),
\* and then the connection stays in its dbConnections
WmClose ==
    \E failing \in SUBSET {c \in wm.conns : c.owner \in Managed} :
        /\ wm.probes
        /\ wm.pc \in {"idle", "done"}
        /\ wm' = [wm EXCEPT !.op = "close", !.pc = "done",
                            !.status = IF failing = {} THEN "ok" ELSE "throw",
                            !.result = <<>>, !.loaded = FALSE,
                            !.conns = {c \in @ : c.owner \notin Managed \/ c \in failing},
                            !.shut = TRUE, !.failed = failing]
        /\ UNCHANGED <<disk, loading, nonDiscVars>>

(***************************************************************************)
(* Specifications                                                          *)
(***************************************************************************)
QbInit ==
    /\ qb = NewBuilder
    /\ ret = RetNone
    /\ calls = <<>>
    /\ kept = <<>>

InitQB ==
    QbInit /\ driver = "better-sqlite3" /\ ConnIdle /\ StoreIdle /\ NotepadIdle /\ DiscIdle
    /\ UiIdle

NextQB ==
    \/ Select \/ From \/ Where \/ WhereIn \/ WhereLike \/ WhereBetween
    \/ Join \/ GroupBy \/ Having \/ OrderBy \/ Limit \/ Offset
    \/ Set \/ Insert \/ Delete \/ Build \/ Reset

SpecQB == InitQB /\ [][NextQB]_vars

InitConn ==
    /\ QbInit
    /\ DiscIdle
    /\ UiIdle
    /\ driver \in Drivers
    /\ ConnIdle
    /\ StoreIdle
    /\ NotepadIdle

NextConn ==
    \/ DbCallSync
    \/ DbCallAsync \/ DbOpened \/ DbSchemaDone \/ DbRun \/ DbClosed \/ DbCloseAllStep

SpecConn == InitConn /\ [][NextConn]_vars


InitStore ==
    /\ QbInit
    /\ DiscIdle
    /\ UiIdle
    /\ driver \in Drivers
    /\ ConnIdle
    /\ ItemTable \in StoredTables
    /\ clock = 1
    /\ wsTasks = [t \in TaskIds |-> IdleCall]
    /\ lastSet = [k \in Keys |-> <<>>]
    /\ storeCalls = 0
    /\ NotepadIdle

NextStore ==
    \/ Tick
    \/ StoreSet \/ StoreGet \/ StoreDelete
    \/ SetCheck \/ SetWrite \/ GetRead \/ DeleteRun

SpecStore == InitStore /\ [][NextStore]_vars

\* reads of a database file that holds any text under k1, with failing statements
InitRead ==
    /\ QbInit
    /\ DiscIdle
    /\ UiIdle
    /\ driver \in Drivers
    /\ ConnIdle
    /\ ItemTable \in ReadTables
    /\ clock = 1
    /\ wsTasks = [t \in TaskIds |-> IdleCall]
    /\ lastSet = [k \in Keys |-> <<>>]
    /\ storeCalls = 0
    /\ NotepadIdle

NextRead == StoreGet \/ GetRead \/ GetFails

SpecRead == InitRead /\ [][NextRead]_vars

InitNotepad ==
    /\ QbInit
    /\ DiscIdle
    /\ UiIdle
    /\ driver = "better-sqlite3"
    /\ ConnIdle
    /\ ItemTable \in NotepadTables
    /\ clock = 1
    /\ wsTasks = [t \in TaskIds |-> IdleCall]
    /\ lastSet = [k \in Keys |-> <<>>]
    /\ storeCalls = 0
    /\ NotepadIdle

NextNotepad ==
    \/ NpCreate \/ NpGet \/ NpGetAll \/ NpDelete
    \/ NpSetName \/ NpSetText \/ NpSave
    \/ NpLoad \/ NpStore

SpecNotepad == InitNotepad /\ [][NextNotepad]_vars

\* the builders a caller hands to queryOne: without a table, and the two
\* key queries of Workspace
QueryInputs ==
    { NewBuilder, QDelete(NewBuilder),
      QWhere(NewBuilder, <<"key", "=", "?">>, <<Str(STORAGE_KEY)>>),
      WsKeyQuery(STORAGE_KEY), WsGetQuery(STORAGE_KEY) }

\* DatabaseService.queryOne(dbPath, queryBuilder) of the synchronous build:
\* getConnection, queryBuilder.build() outside the try block, then the
\* statement inside it; value keeps the builder's table
DbQueryOne ==
    \E t \in TaskIds, b \in QueryInputs, fails \in BOOLEAN :
        LET call == [IdleCall EXCEPT !.op = "queryOne", !.api = "db",
                                     !.value = Str(b.fromTable)] IN
        /\ CanStart(t)
        /\ Started(t,
             IF BuildThrows(b) THEN Thrown(call, "DatabaseError:query_builder")
             ELSE IF fails THEN Thrown([call EXCEPT !.fault = TRUE], "DatabaseError:query_one")
             ELSE Let(Exec(ItemTable, Statement(b), clock), LAMBDA r :
                      Returned(call, IF r.row = <<>> THEN JsNull ELSE Obj(r.row[1]))))
        /\ UNCHANGED <<nonStoreVars, notepadVars>>

\* reading the collection from a database file that holds any JSON under its key
InitBlob ==
    /\ QbInit
    /\ DiscIdle
    /\ UiIdle
    /\ driver = "better-sqlite3"
    /\ ConnIdle
    /\ ItemTable \in BlobTables
    /\ clock = 1
    /\ wsTasks = [t \in TaskIds |-> IdleCall]
    /\ lastSet = [k \in Keys |-> <<>>]
    /\ storeCalls = 0
    /\ NotepadIdle

NextBlob == NpGet \/ NpGetAll \/ NpDelete \/ DbQueryOne

SpecBlob == InitBlob /\ [][NextBlob]_vars

\* builds whose first result the caller keeps, between builder calls
NextKeep ==
    \/ From \/ Where \/ WhereIn \/ Join \/ Having \/ Limit
    \/ Set \/ Insert \/ Delete \/ BuildKept

SpecKeep == InitQB /\ [][NextKeep]_vars

InitUi == InitQB

NextUi == setWorkspaces \/ setSelectedWorkspaceId \/ setLoading \/ setError \/ reset

SpecUi == InitUi /\ [][NextUi]_vars

InitDisc ==
    /\ QbInit
    /\ driver = "better-sqlite3"
    /\ ConnIdle
    /\ StoreIdle
    /\ NotepadIdle
    /\ disk \in Disks
    /\ wm \in {[IdleManager EXCEPT !.probes = b] : b \in BOOLEAN}
    /\ loading = NotLoading
    /\ UiIdle

NextDisc ==
    \/ WmInitialize \/ WmGetWorkspaces
    \/ LocMkdir \/ LocAccess \/ LocProbe \/ LocRead \/ WmLoaded

SpecDisc == InitDisc /\ [][NextDisc]_vars

\* the probing build over entries whose workspace.json is good, with the
\* stores in use and close()
InitShut ==
    /\ InitDisc
    /\ wm.probes
    /\ disk.root = "ok"
    /\ \A d \in Candidates : disk.entry[d].descriptor = "ok"

NextShut == NextDisc \/ WsOpen \/ WmClose

SpecShut == InitShut /\ [][NextShut]_vars

(***************************************************************************)
(* QueryBuilder: what was supplied (from the call history) and what the    *)
(* built text shows (from the sql tokens)                                  *)
(***************************************************************************)
\* the bound values of the history entries whose method is in ms, in call order
TaggedOf(log, ms, clause) ==
    Flatten([i \in 1..Len(log) |->
        IF log[i].m \in ms
        THEN [j \in 1..Len(log[i].vals) |->
                [clause |-> clause, field |-> log[i].fields[j], value |-> log[i].vals[j]]]
        ELSE <<>>])

WhereMethods == {"where", "whereIn", "whereLike", "whereBetween"}

ProcessedTagged(ts) ==
    [i \in 1..Len(ts) |-> [ts[i] EXCEPT !.value = ProcessedValue(ts[i].value)]]

LastInsertIndex(log) ==
    IF \E i \in 1..Len(log) : log[i].m = "insert"
    THEN CHOOSE i \in 1..Len(log) :
            /\ log[i].m = "insert"
            /\ \A j \in (i+1)..Len(log) : log[j].m # "insert"
    ELSE 0

\* every bound value supplied since construction / reset
AllSupplied(log) ==
    ProcessedTagged(TaggedOf(log, {"set"}, "set"))
        \o ProcessedTagged(TaggedOf(log, {"insert"}, "insert"))
        \o TaggedOf(log, {"join"}, "join")
        \o TaggedOf(log, WhereMethods, "where")
        \o TaggedOf(log, {"having"}, "having")

\* the bound values of the clauses a statement of this verb carries
ExpectedTagged(log, verb) ==
    (IF verb = "UPDATE" THEN ProcessedTagged(TaggedOf(log, {"set"}, "set"))
     ELSE IF verb = "INSERT" /\ LastInsertIndex(log) > 0
     THEN ProcessedTagged(TaggedOf(<<log[LastInsertIndex(log)]>>, {"insert"}, "insert"))
     ELSE <<>>)
        \o TaggedOf(log, {"join"}, "join")
        \o TaggedOf(log, WhereMethods, "where")
        \o TaggedOf(log, {"having"}, "having")

ValuesOf(ts) == [i \in 1..Len(ts) |-> ts[i].value]
TagsOf(ts) == [i \in 1..Len(ts) |-> [clause |-> ts[i].clause, field |-> ts[i].field]]

\* reading the sql text left to right: the clause and column of each '?'
RECURSIVE ScanTags(_, _, _, _, _, _)
ScanTags(q, i, clause, ident, cols, k) ==
    IF i > Len(q) THEN <<>>
    ELSE
      LET tok == q[i]
          nxt == IF i < Len(q) THEN q[i+1] ELSE ""
          id  == IF nxt \in {"=", ">", "IN", "LIKE", "BETWEEN"} THEN tok ELSE ident
      IN
      IF tok = "?" THEN
          IF clause = "insert"
          THEN <<[clause |-> "insert", field |-> cols[k+1]]>>
                  \o ScanTags(q, i+1, clause, ident, cols, k+1)
          ELSE <<[clause |-> clause, field |-> ident]>>
                  \o ScanTags(q, i+1, clause, ident, cols, k)
      ELSE IF tok = "SET" THEN ScanTags(q, i+1, "set", id, cols, k)
      ELSE IF tok = "INTO" THEN ScanTags(q, i+1, "into", id, cols, k)
      ELSE IF tok = "(" /\ clause = "into" THEN ScanTags(q, i+1, "cols", id, cols, k)
      ELSE IF tok = ")" /\ clause = "cols" THEN ScanTags(q, i+1, "colsdone", id, cols, k)
      ELSE IF clause = "cols"
           THEN ScanTags(q, i+1, clause, id, IF tok = "," THEN cols ELSE Append(cols, tok), k)
      ELSE IF tok = "VALUES" THEN ScanTags(q, i+1, "insert", id, cols, k)
      ELSE IF tok = "JOIN" THEN ScanTags(q, i+1, "join", id, cols, k)
      ELSE IF tok = "WHERE" THEN ScanTags(q, i+1, "where", id, cols, k)
      ELSE IF tok = "HAVING" THEN ScanTags(q, i+1, "having", id, cols, k)
      ELSE IF tok \in {"GROUP", "ORDER", "LIMIT", "OFFSET"}
           THEN ScanTags(q, i+1, "none", id, cols, k)
      ELSE ScanTags(q, i+1, clause, id, cols, k)

PlaceholderTags(q) == ScanTags(q, 1, "none", "", <<>>, 0)

CountPlaceholders(q) == Cardinality({i \in 1..Len(q) : q[i] = "?"})

\* C1 (as stated): every bound value supplied appears in params and never in
\* the sql text, which holds one '?' per param.
C1_AsStated ==
    ret.kind = "built" =>
        LET sup == AllSupplied(calls) IN
        /\ \A i \in 1..Len(sup) :
              /\ sup[i].value \in Range(ret.params)
              /\ Interpolate(sup[i].value) \notin Range(ret.query)
        /\ CountPlaceholders(ret.query) = Len(ret.params)

\* C1 (amended): no bound value supplied ever appears in the sql text, which
\* holds exactly one '?' per entry of params; the params of where/whereIn/
\* whereLike/whereBetween/having/join always appear in params, the values of
\* set (objects as JSON text) when the statement built is an UPDATE, and the
\* values of the last insert when it is an INSERT.
C1_BoundValuesOnlyInParams ==
    ret.kind = "built" =>
        LET sup == AllSupplied(calls)
            exp == ExpectedTagged(calls, ret.query[1])
        IN
        /\ \A i \in 1..Len(sup) : Interpolate(sup[i].value) \notin Range(ret.query)
        /\ \A i \in 1..Len(exp) : exp[i].value \in Range(ret.params)
        /\ CountPlaceholders(ret.query) = Len(ret.params)

\* an UPDATE was built from set() values, one of them an object
C1_Witness ==
    /\ ret.kind = "built"
    /\ ret.query[1] = "UPDATE"
    /\ \E i \in 1..Len(calls) : calls[i].m = "set" /\ calls[i].vals = <<ValObj>>
    /\ \E i \in 1..Len(calls) : calls[i].m \in WhereMethods
    /\ JSONText(ValObj) \in Range(ret.params)

\* C2 (as stated): params follow the placeholders left to right, and there are
\* as many params as bound values were supplied.
C2_AsStated ==
    ret.kind = "built" =>
        LET exp == ExpectedTagged(calls, ret.query[1]) IN
        /\ ret.params = ValuesOf(exp)
        /\ PlaceholderTags(ret.query) = TagsOf(exp)
        /\ Len(ret.params) = Len(AllSupplied(calls))

\* C2 (amended): params are, left to right, the values of the placeholders of
\* the sql: the SET values of an UPDATE or the values of the last insert of an
\* INSERT, then JOIN params in join call order, then WHERE params in call
\* order, then HAVING params in call order; their number is the number of bound
\* values of the clauses the statement carries.
C2_ParamsFollowPlaceholders ==
    ret.kind = "built" =>
        LET exp == ExpectedTagged(calls, ret.query[1]) IN
        /\ ret.params = ValuesOf(exp)
        /\ PlaceholderTags(ret.query) = TagsOf(exp)

\* where() was called before join(), both with a bound value
C2_Witness ==
    /\ ret.kind = "built"
    /\ \E i, j \in 1..Len(calls) :
          /\ i < j
          /\ calls[i].m \in WhereMethods
          /\ calls[j].m = "join" /\ Len(calls[j].vals) > 0
    /\ Len(ret.params) >= 2

\* C6 (as stated): within one DatabaseService, under every interleaving, at most
\* one connection per path is opened and live at any time (an operation that
\* finds a cached connection uses it and opens none: DbCallAsync, SyncGet).
\* Connections whose setup failed are left out here: only the connections that
\* getConnection handed to a caller are counted.
C6_OneLiveConnectionPerPath ==
    \A p \in Paths : Cardinality({c \in LiveConns(p) : conns[c].setup = "ok"}) <= 1

\* C7 (as stated): once the connection of a path was closed, every later
\* operation on that path fails, and none goes on with a connection (a newly
\* opened one included).
C7_ClosedStaysClosed ==
    \A t \in TaskIds :
        (dbTasks[t].op = "get" /\ dbTasks[t].afterClose) =>
            /\ dbTasks[t].pc \notin {"schema", "gotConn"}
            /\ dbTasks[t].pc = "done" => dbTasks[t].status = "throw"


(***************************************************************************)
(* Store: round trip, one row per key, upsert                              *)
(***************************************************************************)
\* the values JSON can denote
Serializable(value) == value.t \in {"num", "str", "obj", "null"}

RowsOf(key) == {i \in 1..Len(ItemTable) : ItemTable[i].key = Str(key)}

\* SQLite's ordering of stored values: every INTEGER sorts before every TEXT
SqlLeq(a, b) ==
    IF a.t = "num" THEN (b.t # "num" \/ a.v <= b.v)
    ELSE (b.t # "num" /\ a.v = b.v)

\* C3: a get of key k that reads after a set(k, v) of a JSON-serializable v
\* wrote its row, with no other write to k during or after that set, returns
\* a value equal to v, whether the set inserted the row or updated it.
C3_RoundTrip ==
    \A t \in TaskIds :
        LET call == wsTasks[t] IN
        (call.op = "get" /\ call.pc = "done" /\ call.expect # <<>>
            /\ Serializable(call.expect[1].value)) =>
                /\ call.status = "ok"
                /\ call.result.t = call.expect[1].value.t
                /\ call.result.v = call.expect[1].value.v

\* C3 (witness): a Workspace.get returned the object that a Workspace.set
\* had stored over the existing row of k1
C3_Witness ==
    \E t \in TaskIds :
        /\ wsTasks[t].op = "get" /\ wsTasks[t].pc = "done" /\ wsTasks[t].api = "ws"
        /\ wsTasks[t].key = "k1"
        /\ wsTasks[t].expect # <<>>
        /\ wsTasks[t].expect[1].how = "update" /\ wsTasks[t].expect[1].api = "ws"
        /\ wsTasks[t].result.t = "obj" /\ wsTasks[t].result.v = "{a:1}"

\* C4: no key ever has more than one row; a key whose last set wrote its row
\* has exactly one row, and when the set before it was made through the same
\* interface the row's updated_at is not smaller than after that earlier set.
C4_OneRowPerKey ==
    \A k \in Keys :
        /\ Cardinality(RowsOf(k)) <= 1
        /\ lastSet[k] # <<>> =>
            /\ Cardinality(RowsOf(k)) = 1
            /\ \A i \in RowsOf(k) : ItemTable[i].updated_at = lastSet[k][1].updated
            /\ (lastSet[k][1].prev # <<>> /\ lastSet[k][1].prev[1].api = lastSet[k][1].api) =>
                   SqlLeq(lastSet[k][1].prev[1].updated, lastSet[k][1].updated)

\* C4 (witness): k1 was set twice to the same value through Workspace.set
C4_Witness ==
    /\ lastSet["k1"] # <<>>
    /\ lastSet["k1"][1].api = "ws"
    /\ lastSet["k1"][1].prev # <<>>
    /\ lastSet["k1"][1].prev[1].api = "ws"
    /\ lastSet["k1"][1].prev[1].value = lastSet["k1"][1].value
    /\ Cardinality(RowsOf("k1")) = 1

\* C5: a set of a JSON-serializable value never ends in an error, also when
\* another set of the same key ran between its steps (no read-then-write race).
C5_InterleavedSetsSucceed ==
    \A t \in TaskIds :
        (wsTasks[t].op = "set" /\ wsTasks[t].pc = "done" /\ Serializable(wsTasks[t].value)) =>
            wsTasks[t].status = "ok"

(***************************************************************************)
(* Notepads: what holds in the state in which a call returns               *)
(***************************************************************************)
\* the step in which caller t's call of op returns without an error
ReturnsOk(t, op) ==
    /\ npTasks'[t] # npTasks[t]
    /\ npTasks'[t].pc = "done"
    /\ npTasks'[t].op = op
    /\ npTasks'[t].status = "ok"

\* C8: when createNotepad returns, the blob under every storage key holds the
\* new record's id, also under a key that held no blob when the call began.
C8_CreateWritesEveryMirror ==
    [][\A t \in TaskIds :
          ReturnsOk(t, "create") =>
              MirrorsWith(ItemTable', npTasks'[t].id) = 1..Len(storageKeys)]_vars

\* C9: when createNotepad returns a record r, getNotepad(r.id) returns a record
\* with r's id, name and text and getAll() contains it, from any store state.
C9_CreatedIsRetrievable ==
    [][\A t \in TaskIds :
          ReturnsOk(t, "create") =>
              /\ getNotepad(ItemTable', npTasks'[t].id) = Outcome(TRUE, npTasks'[t].result, "")
              /\ getAll(ItemTable').ok
              /\ npTasks'[t].result.v \in getAll(ItemTable').value.v]_vars

\* C10: when deleteNotepad(id) returns, no storage key's blob holds id, the
\* result is true exactly when some blob held id when the call began, and
\* getNotepad(id) returns null.
C10_DeleteClearsEveryMirror ==
    [][\A t \in TaskIds :
          ReturnsOk(t, "delete") =>
              /\ MirrorsWith(ItemTable', npTasks'[t].id) = {}
              /\ npTasks'[t].result = Bool(npTasks'[t].had # {})
              /\ getNotepad(ItemTable', npTasks'[t].id).ok
              /\ getNotepad(ItemTable', npTasks'[t].id).value.t = "null"]_vars

(***************************************************************************)
(* Notepads: setters, failed writes, the shape of the blobs                *)
(***************************************************************************)
\* the record stored for id in the blob under storageKeys[i], if any
StoredRecord(tbl, i, id) ==
    Let(WsGetNow(tbl, storageKeys[i]), LAMBDA g :
        IF g.ok /\ HasNotepads(g.value) /\ id \in DOMAIN g.value.v.notepads
        THEN <<g.value.v.notepads[id]>> ELSE <<>>)

\* the blob under storageKeys[i] without the record of id, if there is a blob
OtherRecords(tbl, i, id) ==
    Let(WsGetNow(tbl, storageKeys[i]), LAMBDA g :
        IF g.ok /\ HasNotepads(g.value)
        THEN <<[g.value.v EXCEPT !.notepads =
                   [x \in DOMAIN g.value.v.notepads \ {id} |-> g.value.v.notepads[x]]]>>
        ELSE <<>>)

\* the step in which caller t calls setName with an empty or blank name
CallsSetNameBlank(t) ==
    /\ npTasks'[t].op = "setName"
    /\ npTasks'[t].call = npCalls + 1
    /\ npCalls' = npCalls + 1
    /\ npTasks'[t].arg \in {"", "  "}

\* C11: setName with an empty or whitespace-only name throws
\* DataValidationError at once, and the record stored for the id in the blob
\* of every storage key is what it was.
C11_BlankNameRejected ==
    [][\A t \in TaskIds :
          CallsSetNameBlank(t) =>
              /\ npTasks'[t].pc = "done"
              /\ npTasks'[t].status = "throw"
              /\ npTasks'[t].error = "DataValidationError"
              /\ \A i \in 1..Len(storageKeys) :
                     StoredRecord(ItemTable', i, npTasks'[t].id)
                         = StoredRecord(ItemTable, i, npTasks'[t].id)]_vars

\* C11 (witness): setName("  ") on a record that every storage key holds has thrown
C11_Witness ==
    \E t \in TaskIds :
        /\ npTasks[t].op = "setName" /\ npTasks[t].arg = "  "
        /\ npTasks[t].status = "throw"
        /\ npTasks[t].had = 1..Len(storageKeys)

\* C12: when a setName or setText that no other writing call overlapped
\* returns without error, getNotepad(id) returns the record with the new value.
C12_SetterIsDurable ==
    [][\A t \in TaskIds :
          ((ReturnsOk(t, "setName") \/ ReturnsOk(t, "setText")) /\ npTasks'[t].alone) =>
              /\ getNotepad(ItemTable', npTasks'[t].id).ok
              /\ getNotepad(ItemTable', npTasks'[t].id).value.t = "obj"
              /\ getNotepad(ItemTable', npTasks'[t].id).value.v = npTasks'[t].data]_vars

\* the step in which caller t's workspace.set of the blob under its current
\* storage key comes back
SetComesBack(t) == npTasks[t].pc = "store" /\ npTasks'[t].pc # "store"

\* C13: a workspace.set that succeeds leaves the changed blob under its key;
\* when a workspace.set fails after another key was written, the call ends
\* at once with an error and the table is exactly what it was before the
\* failed write (nothing is rolled back, nothing is written again).
C13_FailedWriteIsReported ==
    [][\A t \in TaskIds :
          SetComesBack(t) =>
              IF npTasks'[t].wrote # npTasks[t].wrote
              THEN WsGetNow(ItemTable', storageKeys[npTasks[t].i]).value = npTasks[t].blob
              ELSE npTasks[t].wrote # {} =>
                      /\ npTasks'[t].pc = "done"
                      /\ npTasks'[t].status = "throw"
                      /\ npTasks'[t].error = "NotepadError"
                      /\ ItemTable' = ItemTable]_vars

\* C13 (witness): a call has thrown at its second storage key after it wrote
\* the first, and the first key's blob holds what the call wrote there
C13_Witness ==
    \E t \in TaskIds :
        /\ npTasks[t].op \in {"create", "setName", "setText", "save"}
        /\ npTasks[t].pc = "done" /\ npTasks[t].status = "throw"
        /\ npTasks[t].wrote = {1} /\ npTasks[t].i = 2 /\ npTasks[t].alone
        /\ StoredRecord(ItemTable, 1, npTasks[t].id) = <<npTasks[t].data>>
        /\ StoredRecord(ItemTable, 2, npTasks[t].id) # <<npTasks[t].data>>

\* the step in which caller t's getNotepad or getAll call is made and answered
Reads(t) ==
    /\ npTasks'[t].op \in {"get", "getAll"}
    /\ npTasks'[t].call = npCalls + 1
    /\ npCalls' = npCalls + 1

\* C14: getNotepad and getAll throw DataValidationError whenever the row of
\* the collection key holds a value that is not a valid collection, and
\* treat only a missing row as the empty collection.
C14_InvalidBlobRejected ==
    [][\A t \in TaskIds :
          (Reads(t) /\ HasRow(ItemTable, STORAGE_KEY)
                /\ ~isValidNotepadData(WsGetNow(ItemTable, STORAGE_KEY).value)) =>
              /\ npTasks'[t].status = "throw"
              /\ npTasks'[t].error = "DataValidationError"]_vars

\* C15: in the blob under every storage key, each key of notepads is the id
\* of the record stored under it.
C15_KeysAreIds ==
    \A i \in 1..Len(storageKeys) :
        Let(WsGetNow(ItemTable, storageKeys[i]), LAMBDA g :
            (g.ok /\ HasNotepads(g.value)) =>
                \A x \in DOMAIN g.value.v.notepads : g.value.v.notepads[x].id = x)

\* C15 (witness): a blob holds two records, one of them renamed by setName
C15_Witness ==
    \E t \in TaskIds, i \in 1..Len(storageKeys) :
        /\ npTasks[t].op = "setName" /\ npTasks[t].status = "ok"
        /\ StoredRecord(ItemTable, i, npTasks[t].id) = <<npTasks[t].data>>
        /\ \A id \in Ids : StoredRecord(ItemTable, i, id) # <<>>

\* C16: a workspace.set made by a call that no other writing call overlapped
\* changes, in the blob of every storage key, nothing but the record of the
\* call's id: the other records and notepadDataVersion are as before.
C16_OtherRecordsKept ==
    [][\A t \in TaskIds :
          (SetComesBack(t) /\ npTasks[t].alone) =>
              \A i \in 1..Len(storageKeys) :
                  OtherRecords(ItemTable', i, npTasks[t].id)
                      = OtherRecords(ItemTable, i, npTasks[t].id)]_vars

\* C16 (witness): a deleteNotepad that nothing overlapped has removed its
\* record from a blob that still holds the other record
C16_Witness ==
    \E t \in TaskIds, i \in 1..Len(storageKeys), id \in Ids :
        /\ npTasks[t].op = "delete" /\ npTasks[t].status = "ok" /\ npTasks[t].alone
        /\ i \in npTasks[t].wrote
        /\ id # npTasks[t].id
        /\ StoredRecord(ItemTable, i, id) # <<>>
        /\ StoredRecord(ItemTable, i, npTasks[t].id) = <<>>

(***************************************************************************)
(* Store: what get, set and delete answer                                  *)
(***************************************************************************)
\* the text stored in the row of key, if there is a row
StoredText(tbl, key) ==
    Let(Exec(tbl, DbGetStatement(key), 0), LAMBDA r :
        IF r.row = <<>> THEN <<>> ELSE <<r.row[1].value>>)

\* the step in which caller t's get comes back
GetComesBack(t) == wsTasks[t].pc = "read" /\ wsTasks'[t].pc = "done"

CallsSetUnencodable(t) ==
    /\ storeCalls' = storeCalls + 1
    /\ wsTasks'[t] # wsTasks[t]
    /\ wsTasks'[t].op = "set"
    /\ StringifyThrows(wsTasks'[t].value)

\* C18: a set of a value JSON.stringify throws on ends at once with
\* JsonError 'stringify' and the table is what it was.
C18_UnencodableSetRejected ==
    [][\A t \in TaskIds :
          CallsSetUnencodable(t) =>
              /\ wsTasks'[t].pc = "done"
              /\ wsTasks'[t].status = "throw"
              /\ wsTasks'[t].error = "JsonError:stringify"
              /\ ItemTable' = ItemTable]_vars

\* the step in which caller t's delete comes back
DeleteComesBack(t) == wsTasks[t].pc = "delete" /\ wsTasks'[t].pc = "done"

\* the rows of the other keys, in rowid order
RowsBut(tbl, key) == SelectSeq(tbl, LAMBDA r : r.key # Str(key))

\* C19: delete returns without error; when no other write to the key ran
\* since the call was made it returns true exactly if the key had a row;
\* after it the key has no row, has(key) is false and get(key) is null, and
\* the rows of the other keys are what they were.
C19_DeleteRemovesTheRow ==
    [][\A t \in TaskIds :
          DeleteComesBack(t) =>
              LET key == wsTasks[t].key IN
              /\ wsTasks'[t].status = "ok"
              /\ wsTasks'[t].result.t = "bool"
              /\ wsTasks[t].alone =>
                     (wsTasks'[t].result.v <=> StoredText(ItemTable, key) # <<>>)
              /\ StoredText(ItemTable', key) = <<>>
              /\ Exec(ItemTable', Statement(WsHasQuery(key)), 0).row = <<>>
              /\ WsGetNow(ItemTable', key).ok
              /\ WsGetNow(ItemTable', key).value.t = "null"
              /\ RowsBut(ItemTable', key) = RowsBut(ItemTable, key)]_vars

\* C19 (witness): of two deletes of k1 one returned true and the other
\* false, and the row of k2 is still there
C19_Witness ==
    \E t, u \in TaskIds :
        /\ wsTasks[t].op = "delete" /\ wsTasks[t].key = "k1" /\ wsTasks[t].status = "ok"
        /\ wsTasks[u].op = "delete" /\ wsTasks[u].key = "k1" /\ wsTasks[u].status = "ok"
        /\ wsTasks[t].result.v /\ ~wsTasks[u].result.v
        /\ wsTasks[t].alone /\ wsTasks[u].alone
        /\ StoredText(ItemTable, "k1") = <<>>
        /\ StoredText(ItemTable, "k2") # <<>>

(***************************************************************************)
(* Connections: closeAll                                                   *)
(***************************************************************************)
\* the step in which caller t's closeAll comes back
CloseAllComesBack(t) ==
    /\ dbTasks'[t] # dbTasks[t]
    /\ dbTasks'[t].op = "closeAll"
    /\ dbTasks'[t].pc = "done"

\* C20: when closeAll comes back the cache is empty, every connection that
\* the cache held when it was cleared is closed, and the call throws its one
\* 'close_all' error exactly if it ended with an error.
C20_CloseAllClosesEveryCached ==
    [][\A t \in TaskIds :
          CloseAllComesBack(t) =>
              /\ \A p \in Paths : dbConnections'[p] = NoConn
              /\ \A p \in Paths :
                     dbConnections[p] # NoConn => conns'[dbConnections[p]].state = "closed"
              /\ dbTasks'[t].status = "throw" => dbTasks'[t].error = "close_all"]_vars

(***************************************************************************)
(* Connections: the error kinds of getConnection                           *)
(***************************************************************************)
\* C21: a getConnection that fails while the file is being opened throws
\* DatabaseError 'connect', and one that fails in initializeSchema throws
\* DatabaseError 'init_schema'.
C21_SchemaFailureKeepsItsKind ==
    [][\A t \in TaskIds :
          /\ (dbTasks[t].pc = "opening" /\ dbTasks'[t].pc = "done") =>
                 (dbTasks'[t].status = "throw" /\ dbTasks'[t].error = "connect")
          /\ (dbTasks[t].pc = "schema" /\ dbTasks'[t].pc = "done") =>
                 (dbTasks'[t].status = "throw" /\ dbTasks'[t].error = "init_schema")]_vars

(***************************************************************************)
(* QueryBuilder: the shape of the built statement                          *)
(***************************************************************************)
ClauseKeywords == {"JOIN", "WHERE", "GROUP", "HAVING", "ORDER", "LIMIT", "OFFSET"}

ClauseRank(token) ==
    CASE token = "JOIN"   -> 1
      [] token = "WHERE"  -> 2
      [] token = "GROUP"  -> 3
      [] token = "HAVING" -> 4
      [] token = "ORDER"  -> 5
      [] token = "LIMIT"  -> 6
      [] token = "OFFSET" -> 7

\* the clause keywords of a statement stand in rank order, JOIN alone repeating
InClauseOrder(query) ==
    \A i, j \in 1..Len(query) :
        (i < j /\ query[i] \in ClauseKeywords /\ query[j] \in ClauseKeywords) =>
            \/ ClauseRank(query[i]) < ClauseRank(query[j])
            \/ query[i] = "JOIN" /\ query[j] = "JOIN"

\* the statement starts with its verb and names the table before any clause
VerbAndTableFirst(query, table) ==
    /\ query[1] \in {"SELECT", "UPDATE", "INSERT", "DELETE"}
    /\ \E i \in 1..Len(query) :
          /\ query[i] = table
          /\ \A j \in 1..i : query[j] \notin ClauseKeywords

\* the tokens of the clause that starts with keyword, the keyword left out
ClauseBody(query, keyword) ==
    LET start == CHOOSE i \in 1..Len(query) : query[i] = keyword
        ends  == {j \in (start + 1)..Len(query) : query[j] \in ClauseKeywords}
        end   == IF ends = {} THEN Len(query) + 1
                 ELSE CHOOSE j \in ends : \A k \in ends : j <= k
    IN  SubSeq(query, start + 1, end - 1)

HasClause(query, keyword) == \E i \in 1..Len(query) : query[i] = keyword

\* the tables joined, in the order the statement names them
JoinedTables(query) ==
    LET at == {i \in 1..Len(query) : query[i] = "JOIN"}
        Nth[n \in 1..Cardinality(at)] ==
            CHOOSE i \in at : Cardinality({j \in at : j < i}) = n - 1
    IN  [n \in 1..Cardinality(at) |-> query[Nth[n] + 1]]

\* what the logged calls ask for
IsWhereCall(c)  == c.m \in {"where", "whereIn", "whereLike", "whereBetween"} /\ c.vals # <<>>
IsJoinCall(c)   == c.m = "join"
IsHavingCall(c) == c.m = "having"

CalledCondition(c) ==
    CASE c.m = "where"        -> <<c.fields[1], "=", "?">>
      [] c.m = "whereIn"      -> <<"a", "IN", "(">> \o Placeholders(c.vals) \o <<")">>
      [] c.m = "whereLike"    -> <<"b", "LIKE", "?">>
      [] c.m = "whereBetween" -> <<"b", "BETWEEN", "?", "AND", "?">>
      [] c.m = "having"       -> <<"a", ">", "?">>

CalledTable(c) == IF c.fields = <<>> THEN "T3" ELSE "T2"

CalledConditions(cs) == JoinSep([i \in 1..Len(cs) |-> CalledCondition(cs[i])], <<"AND">>)

\* C22: whatever order the builder methods were called in, the built
\* statement starts with its verb and its table, and then holds the JOINs in
\* call order, WHERE with the conditions AND-joined in call order, GROUP BY,
\* HAVING with its conditions AND-joined in call order, ORDER BY, LIMIT and
\* OFFSET, in that order.
C22_ClausesInFixedOrder ==
    ret.kind = "built" =>
        /\ VerbAndTableFirst(ret.query, qb.fromTable)
        /\ InClauseOrder(ret.query)
        /\ JoinedTables(ret.query)
              = [i \in 1..Len(SelectSeq(calls, IsJoinCall)) |->
                    CalledTable(SelectSeq(calls, IsJoinCall)[i])]
        /\ HasClause(ret.query, "WHERE") <=> SelectSeq(calls, IsWhereCall) # <<>>
        /\ HasClause(ret.query, "WHERE") =>
              ClauseBody(ret.query, "WHERE") = CalledConditions(SelectSeq(calls, IsWhereCall))
        /\ HasClause(ret.query, "HAVING") <=> SelectSeq(calls, IsHavingCall) # <<>>
        /\ HasClause(ret.query, "HAVING") =>
              ClauseBody(ret.query, "HAVING") = CalledConditions(SelectSeq(calls, IsHavingCall))

\* from, then where, then join were called, and the statement built from
\* them holds the JOIN and the WHERE
C22_Witness ==
    /\ ret.kind = "built"
    /\ Len(calls) = 3
    /\ calls[2].m = "where"
    /\ calls[3].m = "join"
    /\ HasClause(ret.query, "JOIN")
    /\ HasClause(ret.query, "WHERE")

\* a call of method m is in the log
Called(m) == \E i \in 1..Len(calls) : calls[i].m = m

\* C23 as stated: with more than one of set(), insert() and delete() called,
\* build() makes an UPDATE if set() was called, else an INSERT if insert()
\* was called, else a DELETE; with none of them called it makes a SELECT.
C23_AsStated ==
    ret.kind = "built" =>
        ret.query[1] = (IF Called("set") THEN "UPDATE"
                        ELSE IF Called("insert") THEN "INSERT"
                        ELSE IF Called("delete") THEN "DELETE"
                        ELSE "SELECT")

\* C23: build() makes a DELETE if delete() was called, else an UPDATE if
\* set() was called, else an INSERT if insert() was called, whatever order
\* they were called in; with none of them called it makes a SELECT.
C23_DeleteThenUpdateThenInsert ==
    ret.kind = "built" =>
        ret.query[1] = (IF Called("delete") THEN "DELETE"
                        ELSE IF Called("set") THEN "UPDATE"
                        ELSE IF Called("insert") THEN "INSERT"
                        ELSE "SELECT")

\* delete() was called before set(), and the statement built is a DELETE
C23_Witness ==
    /\ ret.kind = "built"
    /\ \E i, j \in 1..Len(calls) : i < j /\ calls[i].m = "delete" /\ calls[j].m = "set"
    /\ ret.query[1] = "DELETE"

(***************************************************************************)
(* QueryBuilder: the calls that throw                                      *)
(***************************************************************************)
\* this step is a call of method m
CallOf(m) == Len(calls') = Len(calls) + 1 /\ calls'[Len(calls')].m = m

\* this step is build() returning a statement
Builds == calls' = calls /\ ret'.kind = "built"

\* C24: whereIn(field, []) throws DatabaseError 'query_builder' at the call
\* and leaves the builder as it was, so that a later build() has a WHERE
\* clause only if another call added a condition.
C24_EmptyWhereInThrows ==
    [][/\ (CallOf("whereIn") /\ calls'[Len(calls')].vals = <<>>) =>
            /\ ret'.kind = "throw"
            /\ ret'.error = "query_builder"
            /\ qb' = qb
       /\ Builds =>
            /\ HasClause(ret'.query, "WHERE") <=> SelectSeq(calls, IsWhereCall) # <<>>
            /\ ret'.query = BuildQuery(qb)
            /\ ret'.params = BuildParams(qb)]_vars

\* whereIn(field, []) was called after from(), and the statement built
\* afterwards has no WHERE clause
C24_Witness ==
    /\ ret.kind = "built"
    /\ \E i \in 1..Len(calls) : calls[i].m = "whereIn" /\ calls[i].vals = <<>>
    /\ ~HasClause(ret.query, "WHERE")

\* C25: a call of limit(n) or offset(n) either throws DatabaseError
\* 'query_builder' and leaves every field of the builder, a limit or offset
\* set before included, as it was, or stores n; and the n it stores is
\* never negative.
C25_NegativeLimitOffsetThrows ==
    [][/\ CallOf("limit") =>
            IF ret'.kind = "throw"
            THEN ret'.error = "query_builder" /\ qb' = qb
            ELSE /\ qb'.limitValue # Undefined
                 /\ qb'.limitValue[1] >= 0
                 /\ qb' = [qb EXCEPT !.limitValue = qb'.limitValue]
       /\ CallOf("offset") =>
            IF ret'.kind = "throw"
            THEN ret'.error = "query_builder" /\ qb' = qb
            ELSE /\ qb'.offsetValue # Undefined
                 /\ qb'.offsetValue[1] >= 0
                 /\ qb' = [qb EXCEPT !.offsetValue = qb'.offsetValue]]_vars

\* limit(2) and offset(0) were set, and a further limit or offset call threw
C25_Witness ==
    /\ ret.kind = "throw"
    /\ Len(calls) = 3
    /\ calls[3].m \in {"limit", "offset"}
    /\ qb.limitValue = Some(2)
    /\ qb.offsetValue = Some(0)

\* this step is build(), returning or throwing
BuildStep == calls' = calls /\ ret'.kind \in {"built", "throw"}

\* C26: build() on a builder whose fromTable is empty throws DatabaseError
\* 'query_builder' and returns no statement, whatever else the builder
\* holds; on any other builder it returns a statement.
C26_BuildNeedsATable ==
    [][BuildStep =>
          IF qb.fromTable = ""
          THEN ret' = RetThrow("query_builder") /\ qb' = qb
          ELSE ret'.kind = "built"]_vars

\* from('') and delete() were called, and build() threw
C26_Witness ==
    /\ ret = RetThrow("query_builder")
    /\ Called("from")
    /\ calls[Len(calls)].m = "delete"
    /\ qb.fromTable = ""
    /\ qb.isDelete

(***************************************************************************)
(* QueryBuilder.reset()                                                    *)
(***************************************************************************)
\* this step is reset()
ResetStep == calls' = <<>> /\ ret' = RetThis

\* the number of logged calls of method m
CountOf(m) == Cardinality({i \in 1..Len(calls) : calls[i].m = m})

\* the builder holds nothing but what the calls logged since its construction
\* or its last reset() put there
HoldsOnlyWhatWasCalled ==
    /\ qb.selectClause # <<>>    => Called("select")
    /\ qb.fromTable # ""         => Called("from")
    /\ Len(qb.whereConditions)  = Len(SelectSeq(calls, IsWhereCall))
    /\ Len(qb.joinClauses)      = CountOf("join")
    /\ qb.groupByFields # <<>>   => Called("groupBy")
    /\ Len(qb.havingConditions) = CountOf("having")
    /\ Len(qb.orderByClauses)   = CountOf("orderBy")
    /\ qb.limitValue # Undefined   => Called("limit")
    /\ qb.offsetValue # Undefined  => Called("offset")
    /\ Len(qb.setClauses)       = CountOf("set")
    /\ qb.isInsert              = Called("insert")
    /\ qb.insertValues # Undefined => Called("insert")
    /\ qb.isDelete              = Called("delete")
    /\ calls = <<>>              => qb = [NewBuilder EXCEPT !.params = qb.params]

\* C27: reset() leaves the builder equal to a newly constructed one, and
\* after it the builder holds only what the calls made since put there, as
\* on a new builder, so that the statement and params built are those of
\* these calls alone.
C27_ResetIsPristine ==
    [][/\ ResetStep => qb' = NewBuilder
       /\ HoldsOnlyWhatWasCalled'
       /\ Builds => (ret'.query = BuildQuery(qb) /\ ret'.params = qb'.params) ]_vars

\* the builder just after a reset()
C27_Witness ==
    /\ ret = RetThis
    /\ calls = <<>>
    /\ qb = NewBuilder

(***************************************************************************)
(* NotepadManager.createNotepad: the name check                            *)
(***************************************************************************)
\* the step in which caller t calls createNotepad with an empty or blank name
CallsCreateBlank(t) ==
    /\ npTasks'[t].op = "create"
    /\ npTasks'[t].call = npCalls + 1
    /\ npCalls' = npCalls + 1
    /\ npTasks'[t].arg \in {"", "  "}

\* C28: createNotepad with an empty or whitespace-only name throws
\* DataValidationError at once and writes nothing: the database file, and so
\* the blob under every storage key, is what it was, and the call never
\* writes later.
C28_BlankCreateRejected ==
    [][\A t \in TaskIds :
          /\ CallsCreateBlank(t) =>
                /\ npTasks'[t].pc = "done"
                /\ npTasks'[t].status = "throw"
                /\ npTasks'[t].error = "DataValidationError"
                /\ npTasks'[t].wrote = {}
                /\ ItemTable' = ItemTable
          /\ (npTasks[t].op = "create" /\ npTasks[t].arg \in {"", "  "}) =>
                (npTasks'[t] = npTasks[t] \/ npTasks'[t].call > npTasks[t].call)]_vars

\* createNotepad("  ") has thrown on a file that holds a blob under every
\* storage key
C28_Witness ==
    \E t \in TaskIds :
        /\ npTasks[t].op = "create" /\ npTasks[t].arg = "  "
        /\ npTasks[t].status = "throw"
        /\ \A i \in 1..Len(storageKeys) : HasRow(ItemTable, storageKeys[i])

(***************************************************************************)
(* Errors that pass through unwrapped                                      *)
(***************************************************************************)
\* the step in which caller t calls getNotepad, getAll or deleteNotepad
CallsManager(t) ==
    /\ npTasks'[t].op \in {"get", "getAll", "delete"}
    /\ npTasks'[t].call = npCalls + 1
    /\ npCalls' = npCalls + 1

\* the step in which caller t calls queryOne
CallsQueryOne(t) ==
    /\ wsTasks'[t].op = "queryOne"
    /\ wsTasks[t].pc = "done"
    /\ storeCalls' = storeCalls + 1

Included(d) == \E i \in 1..Len(wm.workspaces) : wm.workspaces[i] = d

\* the call in flight has ended after running loadWorkspaces
LoadEnded == wm.pc = "done" /\ wm.loaded

\* workspace.json is missing or cannot be read as a descriptor (the file, its
\* JSON or its folder), or the probe failed with a DatabaseError
DescriptorOrProbeFailed(d) ==
    \/ disk.entry[d].descriptor # "ok"
    \/ wm.probes /\ disk.entry[d].probe = "DatabaseError"

\* C30: after initialize() or getWorkspaces() has loaded, a directory entry
\* is left out exactly if its workspace.json is missing or unreadable or its
\* probe failed with a DatabaseError, whatever the other entries are; an
\* entry left out never makes the call throw, which throws exactly if the
\* root directory cannot be accessed; and a getWorkspaces() that finds
\* workspaces cached returns them without throwing.
C30_EntriesLoadIndependently ==
    /\ LoadEnded =>
          /\ wm.status = "throw" <=> disk.root # "ok"
          /\ wm.status = "ok" =>
                \A d \in Candidates : Included(d) <=> ~DescriptorOrProbeFailed(d)
    /\ (wm.pc = "done" /\ ~wm.loaded) => (wm.status = "ok" /\ wm.result = wm.workspaces)
    /\ ~Included("images")

\* a load has ended with w1 a workspace although its probe failed with a
\* JsonError, and with w2 left out because its workspace.json is not JSON
C30_Witness ==
    /\ LoadEnded
    /\ wm.probes
    /\ wm.status = "ok"
    /\ disk.entry["w1"] = [descriptor |-> "ok", probe |-> "JsonError"]
    /\ disk.entry["w2"].descriptor = "malformed"
    /\ wm.workspaces = <<"w1">>

C32_ResetRestoresInitialState ==
    uiCall.op = "reset" =>
        /\ uiStore.workspaces = <<>>
        /\ uiStore.selectedWorkspaceId = NoString
        /\ uiStore.isLoading = FALSE
        /\ uiStore.error = NoString

\* reset() was called on a store that was not in its initial state
C32_Witness ==
    /\ uiCall.op = "reset"
    /\ uiCall.changed

(***************************************************************************)
(* Connections: what a failed getConnection leaves behind                  *)
(***************************************************************************)
\* C39: a connection whose setup after opening failed is not in the cache
\* and is closed.
C39_FailedSetupLeavesNoConnection ==
    \A c \in 1..Len(conns) :
        conns[c].setup = "failed" =>
            /\ \A p \in Paths : dbConnections[p] # c
            /\ conns[c].state = "closed"

(***************************************************************************)
(* Workspace.set: the timestamps of a row                                  *)
(***************************************************************************)
\* C34: every row of ItemTable holds a number in created_at and in
\* updated_at, never a text that was bound as a parameter.
C34_TimestampsAreNumbers ==
    \A i \in 1..Len(ItemTable) :
        /\ ItemTable[i].created_at.t = "num"
        /\ ItemTable[i].updated_at.t = "num"

(***************************************************************************)
(* Notepad: calls that interleave, and handles that are out of date        *)
(***************************************************************************)
WritingOps == {"create", "save", "setName", "setText", "delete"}

\* the blob under storageKeys[i] shows what caller t's call did to its record
Reflects(t, i) ==
    StoredRecord(ItemTable, i, npTasks[t].id)
        = (IF npTasks[t].op = "delete" THEN <<>> ELSE <<npTasks[t].data>>)

\* C35: when the two callers have each made one call that changes a record,
\* on different records, and both calls have returned, the blob under every
\* storage key that holds one shows both changes, however the calls were
\* interleaved.
C35_NoLostUpdate ==
    ( /\ npCalls = 2
      /\ \A t \in TaskIds :
            /\ npTasks[t].pc = "done"
            /\ npTasks[t].status = "ok"
            /\ npTasks[t].op \in WritingOps
      /\ npTasks["t1"].id # npTasks["t2"].id )
    => \A i \in 1..Len(storageKeys) :
           HasRow(ItemTable, storageKeys[i]) => \A t \in TaskIds : Reflects(t, i)

\* C38: a setName or setText call that has thrown, for an invalid argument or
\* for a failed write to the store, leaves the handle's name and text as they
\* were when the call began.
C38_FailedSetLeavesHandle ==
    \A t \in TaskIds :
        ( /\ npTasks[t].op \in {"setName", "setText"}
          /\ npTasks[t].pc = "done"
          /\ npTasks[t].status = "throw" )
        => npTasks[t].held = npTasks[t].before

\* caller u's last call deleted the record, and caller t then made a call
\* on a handle to it that began with the record under no storage key and ran
\* to its return with no other call in flight
AfterDelete(t, u) ==
    /\ npTasks[u].op = "delete"
    /\ npTasks[u].pc = "done"
    /\ npTasks[u].status = "ok"
    /\ npTasks[u].result = Bool(TRUE)
    /\ npTasks[t].op \in {"save", "setName", "setText"}
    /\ npTasks[t].pc = "done"
    /\ npTasks[t].status = "ok"
    /\ npTasks[t].had = {}
    /\ npTasks[t].id = npTasks[u].id
    /\ npTasks[t].call > npTasks[u].call
    /\ npTasks[t].alone

\* C37: a record whose delete returned true stays deleted: a save, setName
\* or setText made afterwards on a handle obtained before the delete leaves
\* the record absent from the collection under every storage key.
C37_DeletedStaysDeleted ==
    \A t \in TaskIds : \A u \in TaskIds \ {t} :
        AfterDelete(t, u) => MirrorsWith(ItemTable, npTasks[u].id) = {}

\* a record created earlier under the name 'Draft', with no text yet
StoredInfo == [id |-> "n1", name |-> "Draft", text |-> ""]

\* a database file in which the collections that exist hold StoredInfo
HandleTables ==
    { SelectSeq([i \in 1..Len(storageKeys) |->
                    [key |-> Str(storageKeys[i]),
                     value |-> JSONText(Obj([notepadDataVersion |-> i - 1,
                                             notepads |-> [x \in {StoredInfo.id} |-> StoredInfo]])),
                     created_at |-> Num(0), updated_at |-> Num(0)]],
                LAMBDA r : r.key.v \in present) :
        present \in SUBSET Range(storageKeys) \ {{}} }

\* both callers have loaded the stored record: each holds its own Notepad,
\* whose data is a copy of the record (this.data = { ...info })
InitHandles ==
    /\ QbInit
    /\ DiscIdle
    /\ UiIdle
    /\ driver = "better-sqlite3"
    /\ ConnIdle
    /\ ItemTable \in HandleTables
    /\ clock = 1
    /\ wsTasks = [t \in TaskIds |-> IdleCall]
    /\ lastSet = [k \in Keys |-> <<>>]
    /\ storeCalls = 0
    /\ npTasks = [t \in TaskIds |-> [IdleNotepadCall EXCEPT !.held = <<StoredInfo>>]]
    /\ usedIds = {StoredInfo.id}
    /\ npCalls = 0

NextHandles == NpGet \/ NpSetName \/ NpSetText \/ NpSave \/ NpLoad \/ NpStore

SpecHandles == InitHandles /\ [][NextHandles]_vars

\* the step in which caller t's setName or setText, called on the handle as
\* it was loaded and running with no other call in flight, writes the
\* collection under storageKeys[i], which held the record and holds it
\* afterwards
SetWrites(t, i) ==
    /\ npTasks[t].op \in {"setName", "setText"}
    /\ npTasks[t].pc = "store"
    /\ npTasks[t].before = <<StoredInfo>>
    /\ npTasks[t].alone
    /\ npTasks[t].i = i
    /\ npTasks'[t] # npTasks[t]
    /\ StoredRecord(ItemTable, i, npTasks[t].id) # <<>>
    /\ StoredRecord(ItemTable', i, npTasks[t].id) # <<>>

\* C36: a write made by setName leaves the stored record's text as it was
\* stored, and a write made by setText leaves its name as it was stored,
\* also when another handle has saved the other field since this handle was
\* loaded.
C36_SetChangesOnlyItsField ==
    [][\A t \in TaskIds : \A i \in 1..Len(storageKeys) :
          SetWrites(t, i) =>
              Let(StoredRecord(ItemTable, i, npTasks[t].id)[1], LAMBDA old :
              Let(StoredRecord(ItemTable', i, npTasks[t].id)[1], LAMBDA new :
                  /\ npTasks[t].op = "setName" => new.text = old.text
                  /\ npTasks[t].op = "setText" => new.name = old.name))]_vars

(***************************************************************************)
(* WorkspaceManager: the connections of the manager and of its stores      *)
(***************************************************************************)
\* C31: when close() was the last call, every connection to the database of
\* a managed entry is closed, whether a Workspace or the probe of
\* loadWorkspaces opened it, except those whose close threw.
C31_CloseClosesEveryConnection ==
    wm.shut =>
        \A c \in wm.conns : c.path \in Range(wm.workspaces) => c \in wm.failed

\* C33: no two open connections are to the same database file, whichever
\* DatabaseService holds them.
C33_OneConnectionPerPath ==
    \A c \in wm.conns : \A o \in wm.conns : c.path = o.path => c = o
====
